---- MODULE Spec2Model ----
(***************************************************************************)
(* Model of the recall capture daemon (capture/src/bin/recall.rs): N       *)
(* capture tasks -> Q1 (capture channel) -> forwarder ("dedup task") -> Q2 *)
(* (storage channel) -> storage task -> store, with the broadcast shutdown *)
(* of the supervisor.  Channels are tokio bounded mpsc channels; every     *)
(* task is a loop around tokio::select!, which picks any ready branch.     *)
(* A 64-bit pHash is modelled by the set of its bit positions that are 1.  *)
(***************************************************************************)
EXTENDS Integers, Sequences, FiniteSets, TLC

\* ------------------------------------------------------------------ bounds
NumMonitors == 1        \* displays found by list_monitors()
NumRasters == 2         \* distinct screen contents a snapshot can return
MaxFrames == 4          \* cap on frames_captured
MaxMemDedup == 1        \* cap on frames_deduped_memory
MaxTime == 1            \* wall clock runs 0..MaxTime (seconds)
Q1Cap == 2              \* --capture-channel-capacity
Q2Cap == 1              \* --storage-channel-capacity
DedupWindowSecs == 0    \* --dedup-window-secs
LiveFrames == 2         \* cap on frames_captured in the runs checked for termination
NumScenes == 41         \* rasters a display can show in the runs about the store
SceneFrames == 2        \* cap on frames_captured in those runs
SupFrames == 1          \* cap on frames_captured in the runs of the whole daemon
RetentionSecs == 0      \* --retention-days, in seconds
MaxDay == 1             \* the calendar runs over the days EpochDay .. EpochDay + MaxDay
MaxRetention == 1       \* largest retention_days passed to cleanup_old_images
MaxEntries == 2         \* cap on the entries of the image base directory
MaxSaves == 2           \* cap on the calls of save_jpeg
NumImages == 3          \* rasters handed to a FrameComparer
MaxCompares == 3        \* cap on comparison_count
MaxWorkers == 3         \* largest number of worker threads of the runtime
Period == 2             \* 1 / fps, in units of the clock of the timer
MaxSlow == 5            \* longest capture iteration, in the same units
MaxTicks == 4           \* cap on the ticks of the timer
MaxWakeups == 2         \* cap on the wake-ups of the metrics task that are logged
RetentionDays == 0      \* retention_days of the daemon that writes and cleans the image directories
MaxSize == 2            \* largest size in bytes of a JPEG file
MaxTwinTicks == 4       \* cap on the ticks fed to the two capture loops
MaxForeignRows == 1     \* cap on the rows another deployment writes into the shared store
MaxLegacyClock == 11    \* the clock of continuous_capture runs over 0 .. MaxLegacyClock seconds
MaxFaults == 1          \* cap on the Err results of snapshots, the store and the image store

\* ------------------------------------------------------- program constants
DEDUP_THRESHOLD == 10   \* Hamming threshold of the DB dedup

Monitors == 1..NumMonitors
Rasters == 1..NumRasters
FrameIds == 1..MaxFrames
NoImage == 0

VARIABLES now, shutdown, cap, q1, fwd, q2, sto, store, metrics, met, outcome, obs, faults

\* main after the broadcast (its joins) and the daily cleanup task it spawned.
VARIABLES sup, janitor

\* The image directory as ImageStorage sees it, a FrameComparer, and a
\* status code under conversion.
VARIABLES fsys, cmp, conv

\* Where each task of the daemon is in its loop body, and the worker threads
\* of the runtime that polls them.
VARIABLES sched

\* The interval timer of a capture task.
VARIABLES timer

\* What the metrics task logged at its last wake-up.
VARIABLES mlog

\* The storage task, the rows and the daily cleanup next to the image directories.
VARIABLES vault

\* The daemon's and the library's capture loop, fed the same snapshots.
VARIABLES twin

\* continuous_capture, the capture loop of the capture crate.
VARIABLES legacy

lab == <<fsys, cmp, conv, sched, timer, mlog, vault, twin, legacy>>

\* The variables of the pipeline's tasks, and what a call on one of the
\* components above leaves alone.
pipe == <<now, shutdown, cap, q1, fwd, q2, sto, store, metrics, met, outcome, obs, faults>>
but_fsys == <<pipe, sup, janitor, cmp, conv, sched, timer, mlog, vault, twin, legacy>>
but_cmp == <<pipe, sup, janitor, fsys, conv, sched, timer, mlog, vault, twin, legacy>>
but_conv == <<pipe, sup, janitor, fsys, cmp, sched, timer, mlog, vault, twin, legacy>>
but_sched == <<pipe, sup, janitor, fsys, cmp, conv, timer, mlog, vault, twin, legacy>>
but_timer == <<pipe, sup, janitor, fsys, cmp, conv, sched, mlog, vault, twin, legacy>>
but_mlog == <<pipe, sup, janitor, fsys, cmp, conv, sched, timer, vault, twin, legacy>>
but_vault == <<pipe, sup, janitor, fsys, cmp, conv, sched, timer, mlog, twin, legacy>>
but_twin == <<pipe, sup, janitor, fsys, cmp, conv, sched, timer, mlog, vault, legacy>>
but_legacy == <<pipe, sup, janitor, fsys, cmp, conv, sched, timer, mlog, vault, twin>>
but_fsys_vault == <<pipe, sup, janitor, cmp, conv, sched, timer, mlog, twin, legacy>>

host == <<sup, janitor, lab>>

vars == <<now, shutdown, cap, q1, fwd, q2, sto, store, metrics, met, outcome, obs, faults, host>>

\* ------------------------------------------------------------ pure helpers
RECURSIVE SumPow2(_)
SumPow2(S) == IF S = {} THEN 0
              ELSE LET b == CHOOSE x \in S : TRUE IN 2^b + SumPow2(S \ {b})

\* A raster is known by a number; what the program sees of it is its 8x8
\* grayscale thumbnail (to_luma8 + resize), 64 pixels of 0..255.  Rasters 4, 5
\* and 6 are solid black, white and grey.  The others are white on the pixels
\* of Bright and black elsewhere: 1 and 2 differ in pixel 48 only, 3 differs
\* from 1 in eleven low pixels, 7 and 8 differ from 1 in three pixels, 9 is
\* the thumbnail whose hash is 0xABCD_1234_5678_9EF0, and from 10 on the
\* rasters run through the subsets of the pixels ProbeBits, next to pixel 0.
SolidBlack == 4
SolidWhite == 5
SolidGrey == 6
ProbeBits == <<15, 31, 47, 48, 63>>

Bright(image) ==
    CASE image = 1 -> {0}
      [] image = 2 -> {0, 48}
      [] image = 3 -> 0..11
      [] image = 7 -> {0, 1, 2, 3}
      [] image = 8 -> {0, 1, 2, 63}
      [] image = 9 -> {4, 5, 6, 7, 9, 10, 11, 12, 15, 19, 20, 21, 22, 25, 26, 28, 30, 34, 36, 37, 41, 44, 48, 50, 51, 54, 55, 56, 57, 59, 61, 63}
      [] OTHER -> {0} \cup {ProbeBits[j] : j \in {i \in DOMAIN ProbeBits :
                                  ((image - 10) \div (2 ^ (i - 1))) % 2 = 1}}

Luma(image) ==
    CASE image = SolidBlack -> [i \in 0..63 |-> 0]
      [] image = SolidWhite -> [i \in 0..63 |-> 255]
      [] image = SolidGrey -> [i \in 0..63 |-> 128]
      [] OTHER -> [i \in 0..63 |-> IF i \in Bright(image) THEN 255 ELSE 0]

RECURSIVE SumPixels(_, _)
SumPixels(px, n) == IF n < 0 THEN 0 ELSE px[n] + SumPixels(px, n - 1)

\* The bits of the pixels that are >= avg.
AtLeast(px, avg) == {i \in 0..63 : px[i] >= avg}

\* phash64: bit i is set when pixel i of the thumbnail is >= the mean.
phash64(image) == AtLeast(Luma(image), SumPixels(Luma(image), 63) \div 64)

\* (a ^ b).count_ones()
hamming_distance(a, b) == Cardinality((a \ b) \cup (b \ a))

\* The same function as the capture crate has it (dedup.rs), step by step
\* on the bits of the i64: >> is the arithmetic shift, which fills with the
\* sign bit; & 0xFFFF keeps bits 0..15; as i16 reads bit 15 as the sign.
ShiftRight(bits, n) ==
    {b - n : b \in {x \in bits : x >= n}} \cup (IF 63 \in bits THEN (64 - n)..63 ELSE {})
AsI16(bits) == SumPow2(bits \ {15}) - (IF 15 \in bits THEN 32768 ELSE 0)
dedup_hash_prefix(phash) == AsI16(ShiftRight(phash, 48) \cap (0..15))

hash_prefix_Unsigned(phash) == SumPow2({b - 48 : b \in {x \in phash : x >= 48}})

\* The store crate's copy: ((phash >> 48) & 0xFFFF) as i16
hash_prefix(phash) ==
    LET u == SumPow2({b - 48 : b \in {x \in phash : x >= 48}})
    IN IF u >= 32768 THEN u - 65536 ELSE u

\* A screen that drifts (a clock ticking in a corner): consecutive rasters of
\* Drifting are nearly the same picture.
Drifting == 50..52

\* frame_difference(a, b), in thousandths: identical rasters score 0.0; two
\* rasters of the drifting screen score 0.004 for every step between them;
\* any other two rasters score far above the threshold or fail to compare,
\* and both of those outcomes keep the frame.
frame_difference(a, b) ==
    IF a = b THEN 0
    ELSE IF a \in Drifting /\ b \in Drifting
         THEN 4 * (IF a > b THEN a - b ELSE b - a)
         ELSE 1000

\* const DEDUP_THRESHOLD: f64 = 0.006, in thousandths.
MEMORY_DEDUP_THRESHOLD == 6

\* frame_difference(prev, image) < DEDUP_THRESHOLD, with a previous image.
MemoryDuplicate(prev, image) ==
    prev # NoImage /\ frame_difference(prev, image) < MEMORY_DEDUP_THRESHOLD

\* mpsc::Sender::try_send: Closed once the receiver is dropped, Full when
\* the queue holds capacity messages, else Ok.
TrySend_OneMore(q, capacity, closed) ==
    IF closed THEN "closed" ELSE IF Len(q) > capacity THEN "full" ELSE "ok"

TrySend(q, capacity, closed) ==
    IF closed THEN "closed" ELSE IF Len(q) >= capacity THEN "full" ELSE "ok"

\* Two fields of a frame are not in the program and only name things in the
\* properties: id is the frame's capture number (1 for the first frame counted
\* in frames_captured); at is where the frame was when shutdown was
\* broadcast ("q1", "fwd" or "q2"), "-" before that and for any other frame.
NoFrame == [id |-> 0, monitor_id |-> 0, image |-> NoImage, phash |-> {},
            captured_at |-> 0, at |-> "-"]

Ids(q) == {q[i].id : i \in DOMAIN q}
Range(q) == {q[i] : i \in DOMAIN q}

\* The receivers are dropped when their task returns.
Q1Closed == fwd.pc = "done"
Q2Closed == sto.pc = "done"
\* Senders of Q2: the forwarder's clone and the one moved into the metrics task.
Q2SendersGone == fwd.pc = "done" /\ met = "done"

Bump_Twice(counter) == [metrics EXCEPT ![counter] = @ + 2]

Bump(counter) == [metrics EXCEPT ![counter] = @ + 1]

\* outcome with the frames ids given the fate what.
Fate(ids, what) == [i \in FrameIds |-> IF i \in ids THEN what ELSE outcome[i]]

\* obs follows the drain scenario: shutdown broadcast while the storage task
\* waits in its select! with k envelopes in Q2; counts what is stored and
\* deduplicated from then on; Void once an envelope is sent into Q2 after the
\* broadcast or a save_jpeg / insert_frame fails.
Void == [k |-> -1, stored |-> 0, deduped |-> 0]
Count(field) == IF obs.k >= 0 THEN [obs EXCEPT ![field] = @ + 1] ELSE obs

\* ------------------------------------------------- names, dates, directories
\* A name is the sequence of its characters. Rust compares strings byte by
\* byte; Alphabet lists the characters that occur here in byte order.
Alphabet == <<"-", ".", "0", "1", "2", "3", "4", "5", "6", "7", "8", "9", "_",
              "a", "b", "h", "i", "k", "l", "m", "n", "p", "s", "t", "u">>

Code(c) == CHOOSE i \in DOMAIN Alphabet : Alphabet[i] = c

\* a < b for two strings.
RECURSIVE StrLess(_, _)
StrLess(a, b) ==
    IF b = <<>> THEN FALSE
    ELSE IF a = <<>> THEN TRUE
    ELSE IF Head(a) # Head(b) THEN Code(Head(a)) < Code(Head(b))
    ELSE StrLess(Tail(a), Tail(b))

\* Days since 1970-01-01 to the civil date (proleptic Gregorian calendar).
civil_from_days(days) ==
    LET z == days + 719468
        era == z \div 146097
        doe == z - era * 146097
        yoe == (doe - doe \div 1460 + doe \div 36524 - doe \div 146096) \div 365
        doy == doe - (365 * yoe + yoe \div 4 - yoe \div 100)
        mp == (5 * doy + 2) \div 153
        d == doy - (153 * mp + 2) \div 5 + 1
        m == IF mp < 10 THEN mp + 3 ELSE mp - 9
        y == yoe + era * 400 + (IF m <= 2 THEN 1 ELSE 0)
    IN [y |-> y, m |-> m, d |-> d]

\* n in decimal, zero-padded to width characters.
RECURSIVE Pad(_, _)
Pad(n, width) ==
    IF width = 0 THEN <<>> ELSE Append(Pad(n \div 10, width - 1), Alphabet[(n % 10) + 3])

\* timestamp.format("%Y-%m-%d").to_string()
format_date(days) ==
    LET c == civil_from_days(days)
    IN Pad(c.y, 4) \o <<"-">> \o Pad(c.m, 2) \o <<"-">> \o Pad(c.d, 2)

\* Day 0 of the runs is 2019-12-31.
EpochDay == 18261
Days == 0..MaxDay

DateNames == {format_date(EpochDay + d) : d \in Days}

\* Entries somebody else may have put into the base directory.
ForeignNames ==
    {<<"1", "9", "9", "9", "_", "0", "1", "_", "0", "1">>,
     <<"t", "h", "u", "m", "b", "n", "a", "i", "l", "s">>,
     <<"t", "m", "p">>,
     <<"2", "0", "1", "9", "-", "1", "2", "-", "3", "0", ".", "b", "a", "k">>}

Names == DateNames \cup ForeignNames

\* An entry of the base directory: nothing, a regular file, or a directory
\* with regular files in it (files) and regular files further down (deep).
Absent == [kind |-> "none", files |-> {}, deep |-> 0]
EmptyDir == [kind |-> "dir", files |-> {}, deep |-> 0]
RegularFile == [kind |-> "file", files |-> {}, deep |-> 0]

\* A file nobody saved through save_jpeg ("old.jpg").
OtherFile == 0

NoRef == [dir |-> <<>>, file |-> 0]

\* The storage task between two envelopes of the run with the image directories.
NoJob == [pc |-> "select", captured_at |-> 0, image_ref |-> NoRef, image_size_bytes |-> 0]

\* A capture loop before its first tick: the task's locals, what it has put
\* into Q1, and its two counters.
NewLoop == [c |-> [pc |-> "run", previous |-> NoImage, image |-> NoImage],
            sent |-> <<>>, frames_captured |-> 0, frames_deduped_memory |-> 0]

RECURSIVE SumOver(_, _)
SumOver(S, f) ==
    IF S = {} THEN 0
    ELSE LET x == CHOOSE y \in S : TRUE IN f[x] + SumOver(S \ {x}, f)

\* ----------------------------------------------------------- FrameComparer
\* Rasters 1 and 2 look different; raster 3 is raster 1 but for pixels that
\* nearest-neighbour downscaling does not sample. A raster's bytes are named
\* by a number: its own for the full raster, 10 + for the downscaled one.
Images == 1..NumImages
None == -1

\* FrameComparer::downscale: resize_exact to (w / factor, h / factor), or to
\* the same size when the factor is 0.
downscale(config, image) ==
    IF config.downscale_factor = 0 THEN image
    ELSE IF image % 3 = 0 THEN 11 ELSE 10 + (image % 3)

\* FrameComparer::hash_image: DefaultHasher over the bytes, a fixed function
\* of the bytes alone (here a multiplicative hash).
hash_image(bytes) == (bytes * 40503) % (2 ^ 16)

\* compare_histogram: Hellinger distance of the grey histograms in
\* thousandths, 0 for equal histograms, 1000 for disjoint ones.
Tone(bytes) == CASE bytes % 10 = 1 -> 100 [] bytes % 10 = 2 -> 900 [] OTHER -> 101
compare_histogram(image1, image2) ==
    LET d == IF Tone(image1) < Tone(image2) THEN Tone(image2) - Tone(image1)
             ELSE Tone(image1) - Tone(image2)
    IN IF d > 500 THEN 1000 ELSE d

\* No FrameComparer yet, and FrameComparer::new(config).
NoComparer ==
    [config |-> [hash_early_exit |-> FALSE, downscale_comparison |-> FALSE,
                 downscale_factor |-> 0, single_metric |-> FALSE],
     made |-> FALSE, previous_hash |-> None, previous_image_downscaled |-> None,
     previous_image_full |-> None, comparison_count |-> 0, hash_hits |-> 0,
     image |-> None, result |-> None]

new(config) == [NoComparer EXCEPT !.config = config, !.made = TRUE]

\* FrameComparer::update_previous_internal
update_previous_internal_KeepHash(c, full_image, downscaled, hash) ==
    IF c.config.downscale_comparison
    THEN [c EXCEPT !.previous_image_downscaled =
                       IF downscaled # None THEN downscaled ELSE downscale(c.config, full_image),
                   !.previous_image_full = None]
    ELSE [c EXCEPT !.previous_image_full = full_image,
                   !.previous_image_downscaled = None]

update_previous_internal_Forget(c, full_image, downscaled, hash) ==
    [c EXCEPT !.previous_hash = hash]

update_previous_internal(c, full_image, downscaled, hash) ==
    IF c.config.downscale_comparison
    THEN [c EXCEPT !.previous_hash = hash,
                   !.previous_image_downscaled =
                       IF downscaled # None THEN downscaled ELSE downscale(c.config, full_image),
                   !.previous_image_full = None]
    ELSE [c EXCEPT !.previous_hash = hash,
                   !.previous_image_full = full_image,
                   !.previous_image_downscaled = None]

\* FrameComparer::compare: the comparer after the call, its result (in
\* thousandths) in .result and the raster it was given in .image.
compare(c0, current_image) ==
    LET c == [c0 EXCEPT !.comparison_count = @ + 1, !.image = current_image]
        current_downscaled ==
            IF c.config.downscale_comparison THEN downscale(c.config, current_image) ELSE None
        current_hash ==
            IF c.config.hash_early_exit
            THEN hash_image(IF current_downscaled # None THEN current_downscaled
                            ELSE current_image)
            ELSE None
        updated == update_previous_internal(c, current_image, current_downscaled, current_hash)
    IN IF /\ c.previous_hash = None
          /\ c.previous_image_downscaled = None
          /\ c.previous_image_full = None
       THEN [updated EXCEPT !.result = 1000]
       ELSE IF /\ c.config.hash_early_exit
               /\ c.previous_hash # None
               /\ current_hash # None
               /\ c.previous_hash = current_hash
       THEN [c EXCEPT !.hash_hits = @ + 1, !.result = 0]
       ELSE IF c.config.downscale_comparison
       THEN IF c.previous_image_downscaled # None /\ current_downscaled # None
            THEN [updated EXCEPT !.result =
                      compare_histogram(c.previous_image_downscaled, current_downscaled)]
            ELSE [updated EXCEPT !.result = 1000]
       ELSE IF c.previous_image_full # None
            THEN [updated EXCEPT !.result =
                      compare_histogram(c.previous_image_full, current_image)]
            ELSE [updated EXCEPT !.result = 1000]

\* continuous_capture before its first statement.  clock is Instant::now() in
\* seconds; kept is what the loop did with the last frame it compared.
NotStarted ==
    [pc |-> "start", attempt |-> 0, refreshes |-> 0, consecutive_failures |-> 0,
     clock |-> 0, last_capture_time |-> 0, frame_counter |-> 0,
     frame_comparer |-> NoComparer, diff |-> None, kept |-> "-", result |-> "-"]

\* ------------------------------------------------------------ status codes
\* VisionStatus and EmbeddingStatus (traits.rs) and the SMALLINT kept in
\* Postgres; an i16 is a number in I16.
I16 == -32768..32767
Statuses == {"Pending", "Processed", "Failed", "Skipped"}

\* impl From<i16> for VisionStatus
VisionStatus_from_Wrap(v) ==
    CASE v % 4 = 1 -> "Processed" [] v % 4 = 2 -> "Failed" [] v % 4 = 3 -> "Skipped"
      [] OTHER -> "Pending"

VisionStatus_from(v) ==
    CASE v = 1 -> "Processed" [] v = 2 -> "Failed" [] v = 3 -> "Skipped"
      [] OTHER -> "Pending"

\* VisionStatus::to_smallint
VisionStatus_to_smallint(status) ==
    CASE status = "Pending" -> 0 [] status = "Processed" -> 1
      [] status = "Failed" -> 2 [] status = "Skipped" -> 3

\* impl From<i16> for EmbeddingStatus
EmbeddingStatus_from(v) ==
    CASE v = 1 -> "Processed" [] v = 2 -> "Failed" [] v = 3 -> "Skipped"
      [] OTHER -> "Pending"

\* EmbeddingStatus::to_smallint
EmbeddingStatus_to_smallint(status) ==
    CASE status = "Pending" -> 0 [] status = "Processed" -> 1
      [] status = "Failed" -> 2 [] status = "Skipped" -> 3

\* No conversion under way.
Idling == [op |-> "idle", type |-> "-", status |-> "-", code |-> 0, back |-> "-"]

\* ------------------------------------------------- tasks and worker threads
\* The loop body of each task as a sequence of steps, first the await at
\* the top of its select!.
Tasks == {"capture", "dedup", "storage", "metrics"}

Body(t) ==
    CASE t = "capture" -> <<"tick", "capture_image", "frame_difference", "phash64", "try_send">>
      [] t = "dedup" -> <<"recv", "send">>
      [] t = "storage" -> <<"recv", "is_duplicate", "save_jpeg", "insert_frame">>
      [] t = "metrics" -> <<"tick", "log_summary">>

\* Where a step runs: "await" is a suspended future (no thread), "blocking"
\* is a closure on the blocking pool while the task awaits its JoinHandle,
\* "worker" is code run inside poll() on a worker thread of the runtime.
Place(t, step) ==
    CASE step \in {"tick", "recv", "is_duplicate", "insert_frame"} -> "await"
      [] step = "capture_image" -> "blocking"
      [] OTHER -> "worker"

\* -------------------------------------------------------------------- Init
Init ==
    /\ now = 0
    /\ shutdown = FALSE
    /\ cap = [m \in Monitors |-> [pc |-> "run", previous |-> NoImage, image |-> NoImage]]
    /\ q1 = <<>>
    /\ fwd = [pc |-> "select", frame |-> NoFrame]
    /\ q2 = <<>>
    /\ sto = [pc |-> "select", frame |-> NoFrame, dedup |-> "-"]
    /\ store = <<>>
    /\ metrics = [frames_captured |-> 0, frames_deduped_memory |-> 0,
                  frames_deduped_db |-> 0, frames_stored |-> 0, frames_failed |-> 0]
    /\ met = "run"
    /\ outcome = [i \in FrameIds |-> "none"]
    /\ obs = Void
    /\ faults = 0
    /\ sup = [pc |-> "main", joined |-> <<>>, code |-> -1]
    /\ janitor = "sleep"
    /\ fsys = [day |-> 0, entries |-> [n \in Names |-> Absent], uuid |-> 0, refs |-> <<>>,
               last |-> [op |-> "new", arg |-> 0, n |-> 0, ref |-> NoRef]]
    /\ cmp = NoComparer
    /\ conv = Idling
    /\ timer = [clock |-> 0, deadline |-> 0, starts |-> <<>>]
    /\ legacy = NotStarted
    /\ twin = [ticks |-> 0, daemon |-> NewLoop, lib |-> NewLoop]
    /\ vault = [rows |-> <<>>, job |-> NoJob, saved |-> {}, frames_stored |-> 0, janitor |-> "sleep"]
    /\ mlog = [wakeups |-> 0, capture_channel_capacity |-> Q1Cap, storage_channel_capacity |-> Q2Cap, warned |-> {}]
    /\ sched = [threads |-> 0, step |-> [t \in Tasks |-> Body(t)[1]]]

\* ---------------------------------------------------------- wall clock
Tick ==
    /\ now < MaxTime
    /\ now' = now + 1
    /\ UNCHANGED <<shutdown, cap, q1, fwd, q2, sto, store, metrics, met, outcome, obs, faults, host>>

\* ------------------------------------------------- capture task (per monitor)
\* A task that has left its loop: previous_image and image are dropped.
Stopped == [pc |-> "done", previous |-> NoImage, image |-> NoImage]

\* State of one capture task after try_send returned res for the raster image.
CaptureAfterSend_KeepPrevious(c, image, res) ==
    CASE res = "ok" -> [c EXCEPT !.previous = image, !.image = image]
      [] res = "full" -> [c EXCEPT !.image = image]
      [] OTHER -> Stopped

CaptureAfterSend(c, image, res) ==
    CASE res = "ok" -> [c EXCEPT !.previous = image, !.image = image]
      [] res = "full" -> [c EXCEPT !.previous = image, !.image = image]
      [] OTHER -> Stopped

\* Q1 after try_send(msg) returned res.
Q1AfterSend_DropOldest(q, msg, res) ==
    IF res = "ok" THEN Append(q, msg)
    ELSE IF res = "full" THEN Append(Tail(q), msg) ELSE q

Q1AfterSend(q, msg, res) == IF res = "ok" THEN Append(q, msg) ELSE q

\* tick, capture_image() fails: warn and continue.
CaptureSnapshotError(m) ==
    /\ cap[m].pc = "run"
    /\ faults < MaxFaults
    /\ faults' = faults + 1
    /\ UNCHANGED <<now, shutdown, cap, q1, fwd, q2, sto, store, metrics, met, outcome, obs, host>>

\* A task that takes the frame it drops as its new previous_image.
CaptureMemoryDedup_Advance(m, image) ==
    /\ cap[m].pc = "run"
    /\ MemoryDuplicate(cap[m].previous, image)
    /\ metrics.frames_deduped_memory < MaxMemDedup
    /\ cap' = [cap EXCEPT ![m].image = image, ![m].previous = image]
    /\ metrics' = Bump("frames_deduped_memory")
    /\ UNCHANGED <<now, shutdown, q1, fwd, q2, sto, store, met, outcome, obs, faults, host>>

\* tick, snapshot ok, frame_difference(prev, image) < 0.006: count and continue.
CaptureMemoryDedup(m, image) ==
    /\ cap[m].pc = "run"
    /\ MemoryDuplicate(cap[m].previous, image)
    /\ metrics.frames_deduped_memory < MaxMemDedup
    /\ cap' = [cap EXCEPT ![m].image = image]
    /\ metrics' = Bump("frames_deduped_memory")
    /\ UNCHANGED <<now, shutdown, q1, fwd, q2, sto, store, met, outcome, obs, faults, host>>

\* A capture task that counts a frame only once Q1 has taken it.
CaptureFrame_CountSent(m, image) ==
    /\ cap[m].pc = "run"
    /\ ~MemoryDuplicate(cap[m].previous, image)
    /\ metrics.frames_captured < MaxFrames
    /\ LET msg == [id |-> metrics.frames_captured + 1, monitor_id |-> m,
                   image |-> image, phash |-> phash64(image), at |-> "-"]
           res == TrySend(q1, Q1Cap, Q1Closed)
       IN /\ q1' = Q1AfterSend(q1, msg, res)
          /\ cap' = [cap EXCEPT ![m] = CaptureAfterSend(@, image, res)]
          /\ metrics' = IF res = "ok" THEN Bump("frames_captured") ELSE metrics
    /\ UNCHANGED <<now, shutdown, fwd, q2, sto, store, met, outcome, obs, faults, host>>

\* tick, snapshot ok, not a memory duplicate: phash, frames_captured++, try_send.
CaptureFrame(m, image) ==
    /\ cap[m].pc = "run"
    /\ ~MemoryDuplicate(cap[m].previous, image)
    /\ metrics.frames_captured < MaxFrames
    /\ LET msg == [id |-> metrics.frames_captured + 1, monitor_id |-> m,
                   image |-> image, phash |-> phash64(image), at |-> "-"]
           res == TrySend(q1, Q1Cap, Q1Closed)
       IN /\ q1' = Q1AfterSend(q1, msg, res)
          /\ cap' = [cap EXCEPT ![m] = CaptureAfterSend(@, image, res)]
    /\ metrics' = Bump("frames_captured")
    /\ UNCHANGED <<now, shutdown, fwd, q2, sto, store, met, outcome, obs, faults, host>>

\* shutdown branch of the select!: break.
CaptureShutdown(m) ==
    /\ cap[m].pc = "run"
    /\ shutdown
    /\ cap' = [cap EXCEPT ![m] = Stopped]
    /\ UNCHANGED <<now, shutdown, q1, fwd, q2, sto, store, metrics, met, outcome, obs, faults, host>>

\* ------------------------------------------------------ forwarder (dedup task)
\* An envelope stamped with the instant the capture task took for the frame.
StorageMessage_AtSnapshot(frame) ==
    [id |-> frame.id, monitor_id |-> frame.monitor_id, image |-> frame.image,
     phash |-> frame.phash, captured_at |-> frame.timestamp, at |-> frame.at]

\* The envelope built from a raw frame: phash as i64 keeps the bit pattern,
\* captured_at is Utc::now() at this moment.
StorageMessage(frame) ==
    [id |-> frame.id, monitor_id |-> frame.monitor_id, image |-> frame.image,
     phash |-> frame.phash, captured_at |-> now, at |-> frame.at]

\* capture_rx.recv() returns Some(frame): build the envelope, start send().
ForwarderRecv_Newest ==
    /\ fwd.pc = "select"
    /\ q1 # <<>>
    /\ fwd' = [pc |-> "send", frame |-> StorageMessage(q1[Len(q1)])]
    /\ q1' = SubSeq(q1, 1, Len(q1) - 1)
    /\ UNCHANGED <<now, shutdown, cap, q2, sto, store, metrics, met, outcome, obs, faults, host>>

ForwarderRecv ==
    /\ fwd.pc = "select"
    /\ q1 # <<>>
    /\ fwd' = [pc |-> "send", frame |-> StorageMessage(Head(q1))]
    /\ q1' = Tail(q1)
    /\ UNCHANGED <<now, shutdown, cap, q2, sto, store, metrics, met, outcome, obs, faults, host>>

\* Q2 after the forwarder's send completes.
Q2AfterSend(q, msg) == Append(q, msg)

\* storage_tx.send(msg).await completes with Ok: Q2 has room.
ForwarderSendOk ==
    /\ fwd.pc = "send"
    /\ ~Q2Closed
    /\ Len(q2) < Q2Cap
    /\ q2' = Q2AfterSend(q2, fwd.frame)
    /\ fwd' = [pc |-> "select", frame |-> NoFrame]
    /\ obs' = IF shutdown THEN Void ELSE obs
    /\ UNCHANGED <<now, shutdown, cap, q1, sto, store, metrics, met, outcome, faults, host>>

\* The forwarder after it left its loop: its envelope, if any, is dropped.
ForwarderStopped == [pc |-> "done", frame |-> NoFrame]

\* send() returns Err (storage_rx dropped): break; the envelope and the
\* receiver of Q1 with everything still queued are dropped.
ForwarderSendClosed_Retry ==
    /\ fwd.pc = "send"
    /\ Q2Closed
    /\ UNCHANGED vars

ForwarderSendClosed ==
    /\ fwd.pc = "send"
    /\ Q2Closed
    /\ fwd' = ForwarderStopped
    /\ q1' = <<>>
    /\ UNCHANGED <<now, shutdown, cap, q2, sto, store, metrics, met, outcome, obs, faults, host>>

\* capture_rx.recv() never returns None: main keeps channels.capture_tx alive
\* until it returns, after the tasks were joined, so that branch has no action.
\* shutdown branch of the select!: break; capture_rx is dropped with its queue.
ForwarderShutdown ==
    /\ fwd.pc = "select"
    /\ shutdown
    /\ fwd' = ForwarderStopped
    /\ q1' = <<>>
    /\ UNCHANGED <<now, shutdown, cap, q2, sto, store, metrics, met, outcome, obs, faults, host>>

\* ---------------------------------------------------------------- the store
DeploymentId == "host-a"

\* RecallDb::recent_phash_candidates: rows with that prefix captured at or
\* after since (LIMIT 5000 is far above the rows of a bounded run).
recent_phash_candidates_AnyAge(prefix, since) ==
    {i \in DOMAIN store : store[i].phash_prefix = prefix}

recent_phash_candidates(prefix, since) ==
    {i \in DOMAIN store : store[i].phash_prefix = prefix /\ store[i].captured_at >= since}

\* PgStorage::is_duplicate: the candidates within DEDUP_THRESHOLD of phash;
\* the call returns Some(id of one of them), or None when the set is empty.
is_duplicate(phash, window_secs) ==
    {i \in recent_phash_candidates(hash_prefix(phash), now - window_secs) :
        hamming_distance(phash, store[i].phash) <= DEDUP_THRESHOLD}

\* PgStorage::insert_frame + RecallDb::insert_frame: the row that is written.
insert_frame(frame) ==
    [id |-> frame.id, captured_at |-> frame.captured_at, deployment_id |-> DeploymentId,
     phash |-> frame.phash, phash_prefix |-> hash_prefix(frame.phash)]

\* ------------------------------------------------------------- storage task
Idle == [pc |-> "select", frame |-> NoFrame, dedup |-> "-"]
Draining == [pc |-> "drain", frame |-> NoFrame, dedup |-> "-"]

\* Where the task goes when it is done with an envelope: the top of the
\* select! loop, or the next try_recv of the drain loop.
NextEnvelope(s) == IF s.pc \in {"drain_save", "drain_insert"} THEN Draining ELSE Idle

\* storage_rx.recv() returns Some(frame).
StorageRecv ==
    /\ sto.pc = "select"
    /\ q2 # <<>>
    /\ sto' = [pc |-> "dedup", frame |-> Head(q2), dedup |-> "-"]
    /\ q2' = Tail(q2)
    /\ UNCHANGED <<now, shutdown, cap, q1, fwd, store, metrics, met, outcome, obs, faults, host>>

\* The task after is_duplicate returned: res is "some", "none" or "err".
StorageAfterDedup_FailClosed(s, res) ==
    IF res \in {"some", "err"} THEN Idle ELSE [s EXCEPT !.pc = "save", !.dedup = res]

StorageAfterDedup(s, res) ==
    IF res = "some" THEN Idle ELSE [s EXCEPT !.pc = "save", !.dedup = res]

\* is_duplicate(phash, dedup_window_secs).await returns; db_ok = FALSE is Err.
StorageIsDuplicate(db_ok) ==
    /\ sto.pc = "dedup"
    /\ db_ok \/ faults < MaxFaults
    /\ faults' = IF db_ok THEN faults ELSE faults + 1
    /\ LET res == IF ~db_ok THEN "err"
                  ELSE IF is_duplicate(sto.frame.phash, DedupWindowSecs) # {} THEN "some"
                  ELSE "none"
       IN /\ sto' = StorageAfterDedup(sto, res)
          /\ metrics' = IF res = "some" THEN Bump("frames_deduped_db") ELSE metrics
          /\ outcome' = IF res = "some" THEN Fate({sto.frame.id}, "dedup_db") ELSE outcome
          /\ obs' = IF res = "some" THEN Count("deduped") ELSE obs
    /\ UNCHANGED <<now, shutdown, cap, q1, fwd, q2, store, met, host>>

\* The task after save_jpeg returned.
StorageAfterSave_InsertAnyway(s, ok) ==
    [s EXCEPT !.pc = IF s.pc = "save" THEN "insert" ELSE "drain_insert"]

StorageAfterSave(s, ok) ==
    IF ok THEN [s EXCEPT !.pc = IF s.pc = "save" THEN "insert" ELSE "drain_insert"]
    ELSE NextEnvelope(s)

\* image_storage.save_jpeg(...) returns, in the select! loop or in the drain.
StorageSaveJpeg(ok) ==
    /\ sto.pc \in {"save", "drain_save"}
    /\ ok \/ faults < MaxFaults
    /\ faults' = IF ok THEN faults ELSE faults + 1
    /\ sto' = StorageAfterSave(sto, ok)
    /\ metrics' = IF ok THEN metrics ELSE Bump("frames_failed")
    /\ outcome' = IF ok THEN outcome ELSE Fate({sto.frame.id}, "save_failed")
    /\ obs' = IF ok THEN obs ELSE Void
    /\ UNCHANGED <<now, shutdown, cap, q1, fwd, q2, store, met, host>>

\* insert_frame whose Err is logged and not counted.
StorageInsertFrame_ErrUncounted(ok) ==
    /\ sto.pc \in {"insert", "drain_insert"}
    /\ ok \/ faults < MaxFaults
    /\ faults' = IF ok THEN faults ELSE faults + 1
    /\ sto' = NextEnvelope(sto)
    /\ store' = IF ok THEN Append(store, insert_frame(sto.frame)) ELSE store
    /\ metrics' = IF ok THEN Bump("frames_stored") ELSE metrics
    /\ outcome' = Fate({sto.frame.id}, IF ok THEN "stored" ELSE "insert_failed")
    /\ obs' = IF ok THEN Count("stored") ELSE Void
    /\ UNCHANGED <<now, shutdown, cap, q1, fwd, q2, met, host>>

\* storage.insert_frame(...).await returns, in the select! loop or in the drain.
StorageInsertFrame(ok) ==
    /\ sto.pc \in {"insert", "drain_insert"}
    /\ ok \/ faults < MaxFaults
    /\ faults' = IF ok THEN faults ELSE faults + 1
    /\ sto' = NextEnvelope(sto)
    /\ store' = IF ok THEN Append(store, insert_frame(sto.frame)) ELSE store
    /\ metrics' = IF ok THEN Bump("frames_stored") ELSE Bump("frames_failed")
    /\ outcome' = Fate({sto.frame.id}, IF ok THEN "stored" ELSE "insert_failed")
    /\ obs' = IF ok THEN Count("stored") ELSE Void
    /\ UNCHANGED <<now, shutdown, cap, q1, fwd, q2, met, host>>

\* storage_rx.recv() returns None (Q2 empty, every sender dropped): break.
StorageClosed ==
    /\ sto.pc = "select"
    /\ q2 = <<>>
    /\ Q2SendersGone
    /\ sto' = [sto EXCEPT !.pc = "stopped"]
    /\ UNCHANGED <<now, shutdown, cap, q1, fwd, q2, store, metrics, met, outcome, obs, faults, host>>

\* shutdown branch of the select!: enter the drain loop.
StorageShutdown_NoDrain ==
    /\ sto.pc = "select"
    /\ shutdown
    /\ sto' = [sto EXCEPT !.pc = "stopped"]
    /\ UNCHANGED <<now, shutdown, cap, q1, fwd, q2, store, metrics, met, outcome, obs, faults, host>>

StorageShutdown ==
    /\ sto.pc = "select"
    /\ shutdown
    /\ sto' = Draining
    /\ UNCHANGED <<now, shutdown, cap, q1, fwd, q2, store, metrics, met, outcome, obs, faults, host>>

\* What try_recv() gives the drain loop: the head of Q2, or NoFrame for Err.
DrainTryRecv_Empty(q) == NoFrame

DrainTryRecv(q) == IF q # <<>> THEN Head(q) ELSE NoFrame

\* One test of `while let Ok(frame) = storage_rx.try_recv()`: take the
\* envelope (no is_duplicate here), or leave the loop and break.
StorageDrain_WithDedup ==
    /\ sto.pc = "drain"
    /\ LET frame == DrainTryRecv(q2)
       IN IF frame # NoFrame
          THEN /\ sto' = [pc |-> "dedup", frame |-> frame, dedup |-> "-"]
               /\ q2' = Tail(q2)
          ELSE /\ sto' = [sto EXCEPT !.pc = "stopped"]
               /\ q2' = q2
    /\ UNCHANGED <<now, shutdown, cap, q1, fwd, store, metrics, met, outcome, obs, faults, host>>

StorageDrain ==
    /\ sto.pc = "drain"
    /\ LET frame == DrainTryRecv(q2)
       IN IF frame # NoFrame
          THEN /\ sto' = [pc |-> "drain_save", frame |-> frame, dedup |-> "-"]
               /\ q2' = Tail(q2)
          ELSE /\ sto' = [sto EXCEPT !.pc = "stopped"]
               /\ q2' = q2
    /\ UNCHANGED <<now, shutdown, cap, q1, fwd, store, metrics, met, outcome, obs, faults, host>>

\* run_storage_task returns: storage_rx is dropped with whatever the
\* forwarder sent after the last recv / try_recv.
StorageExit ==
    /\ sto.pc = "stopped"
    /\ sto' = [sto EXCEPT !.pc = "done"]
    /\ q2' = <<>>
    /\ UNCHANGED <<now, shutdown, cap, q1, fwd, store, metrics, met, outcome, obs, faults, host>>

\* ------------------------------------------------------------- metrics task
\* tick: log_summary() and the channel capacities; no state changes.
MetricsTick ==
    /\ met = "run"
    /\ UNCHANGED vars

MetricsShutdown ==
    /\ met = "run"
    /\ shutdown
    /\ met' = "done"
    /\ UNCHANGED <<now, shutdown, cap, q1, fwd, q2, sto, store, metrics, outcome, obs, faults, host>>

\* --------------------------------------------------------------- supervisor
\* The frame marked with where it is at the broadcast.
Mark(frame, where) == IF frame = NoFrame THEN frame ELSE [frame EXCEPT !.at = where]
MarkAll(q, where) == [i \in DOMAIN q |-> Mark(q[i], where)]

\* ctrl_c() returns and main broadcasts ShutdownSignal.
MainShutdown ==
    /\ ~shutdown
    /\ shutdown' = TRUE
    /\ q1' = MarkAll(q1, "q1")
    /\ fwd' = [fwd EXCEPT !.frame = Mark(@, "fwd")]
    /\ q2' = MarkAll(q2, "q2")
    /\ obs' = IF sto.pc = "select" THEN [k |-> Len(q2), stored |-> 0, deduped |-> 0] ELSE Void
    /\ UNCHANGED <<now, cap, sto, store, metrics, met, outcome, faults, host>>

\* --------------------------------------------------------------------- Next
Next ==
    \/ Tick
    \/ \E m \in Monitors : CaptureSnapshotError(m)
    \/ \E m \in Monitors, image \in Rasters : CaptureMemoryDedup(m, image)
    \/ \E m \in Monitors, image \in Rasters : CaptureFrame(m, image)
    \/ \E m \in Monitors : CaptureShutdown(m)
    \/ ForwarderRecv
    \/ ForwarderSendOk
    \/ ForwarderSendClosed
    \/ ForwarderShutdown
    \/ StorageRecv
    \/ \E db_ok \in BOOLEAN : StorageIsDuplicate(db_ok)
    \/ \E ok \in BOOLEAN : StorageSaveJpeg(ok)
    \/ \E ok \in BOOLEAN : StorageInsertFrame(ok)
    \/ StorageClosed
    \/ StorageShutdown
    \/ StorageDrain
    \/ StorageExit
    \/ MetricsTick
    \/ MetricsShutdown
    \/ MainShutdown

Spec == Init /\ [][Next]_vars

\* ------------------------------------------------ the pipeline, scheduled fairly
\* The tasks with few frames and a clock that stands still, for the
\* properties of what eventually happens.
LiveNext ==
    \/ \E m \in Monitors : CaptureSnapshotError(m)
    \/ \E m \in Monitors, image \in Rasters : CaptureMemoryDedup(m, image)
    \/ \E m \in Monitors, image \in Rasters :
          metrics.frames_captured < LiveFrames /\ CaptureFrame(m, image)
    \/ \E m \in Monitors : CaptureShutdown(m)
    \/ ForwarderRecv
    \/ ForwarderSendOk
    \/ ForwarderSendClosed
    \/ ForwarderShutdown
    \/ StorageRecv
    \/ \E db_ok \in BOOLEAN : StorageIsDuplicate(db_ok)
    \/ \E ok \in BOOLEAN : StorageSaveJpeg(ok)
    \/ \E ok \in BOOLEAN : StorageInsertFrame(ok)
    \/ StorageClosed
    \/ StorageShutdown
    \/ StorageDrain
    \/ StorageExit
    \/ MetricsTick
    \/ MetricsShutdown
    \/ MainShutdown

\* The runtime polls every task that can make progress; a tick of an
\* interval and the Ctrl-C are the environment's and are not forced.  The
\* shutdown branch of a select! is taken once it stays ready: the other
\* branch is ready only at a tick or while a message waits.
TaskFairness ==
    /\ \A m \in Monitors : WF_vars(CaptureShutdown(m))
    /\ WF_vars(ForwarderRecv)
    /\ WF_vars(ForwarderSendOk)
    /\ WF_vars(ForwarderSendClosed)
    /\ WF_vars(ForwarderShutdown)
    /\ WF_vars(StorageRecv)
    /\ WF_vars(\E db_ok \in BOOLEAN : StorageIsDuplicate(db_ok))
    /\ WF_vars(\E ok \in BOOLEAN : StorageSaveJpeg(ok))
    /\ WF_vars(\E ok \in BOOLEAN : StorageInsertFrame(ok))
    /\ WF_vars(StorageClosed)
    /\ WF_vars(StorageShutdown)
    /\ WF_vars(StorageDrain)
    /\ WF_vars(StorageExit)
    /\ WF_vars(MetricsShutdown)

LiveSpec == Init /\ [][LiveNext]_vars /\ TaskFairness

\* ------------------------------------------ the pipeline with a healthy store
\* Running, no Err results, displays that show any of the rasters 1..NumScenes.
Scenes == 1..NumScenes

SceneNext ==
    \/ Tick
    \/ \E m \in Monitors, image \in Scenes : CaptureMemoryDedup(m, image)
    \/ \E m \in Monitors, image \in Scenes :
          metrics.frames_captured < SceneFrames /\ CaptureFrame(m, image)
    \/ ForwarderRecv
    \/ ForwarderSendOk
    \/ StorageRecv
    \/ StorageIsDuplicate(TRUE)
    \/ StorageSaveJpeg(TRUE)
    \/ StorageInsertFrame(TRUE)

SceneSpec == Init /\ [][SceneNext]_vars

\* A display that alternates between solid black and solid white: what
\* capture_image() returns at the tick after n frames (no tick repeats the
\* raster before it, so every tick yields a frame).
AlternatingRaster(n) == IF n % 2 = 0 THEN SolidBlack ELSE SolidWhite

AltNext ==
    \/ Tick
    \/ \E m \in Monitors : CaptureFrame(m, AlternatingRaster(metrics.frames_captured))
    \/ ForwarderRecv
    \/ ForwarderSendOk
    \/ StorageRecv
    \/ StorageIsDuplicate(TRUE)
    \/ StorageSaveJpeg(TRUE)
    \/ StorageInsertFrame(TRUE)

AltSpec == Init /\ [][AltNext]_vars

\* ---------------------------------- the capture task of the library crate
\* recall-capture's pipeline.rs has a run_capture_task of its own. After
\* try_send returned Ok it leaves previous_image as it was; after Full it
\* takes the image back out of the error and keeps it.
LibCaptureAfterSend(c, image, res) ==
    CASE res = "ok" -> [c EXCEPT !.image = image]
      [] res = "full" -> [c EXCEPT !.previous = image, !.image = image]
      [] OTHER -> Stopped

\* tick, capture_and_dedup returned Ok(Some(frame)): frames_captured++, try_send.
LibCaptureFrame(m, image) ==
    /\ cap[m].pc = "run"
    /\ ~MemoryDuplicate(cap[m].previous, image)
    /\ metrics.frames_captured < MaxFrames
    /\ LET msg == [id |-> metrics.frames_captured + 1, monitor_id |-> m,
                   image |-> image, phash |-> phash64(image), at |-> "-"]
           res == TrySend(q1, Q1Cap, Q1Closed)
       IN /\ q1' = Q1AfterSend(q1, msg, res)
          /\ cap' = [cap EXCEPT ![m] = LibCaptureAfterSend(@, image, res)]
    /\ metrics' = Bump("frames_captured")
    /\ UNCHANGED <<now, shutdown, fwd, q2, sto, store, met, outcome, obs, faults, host>>

\* One tick of a capture loop whose snapshot is image and whose try_send, if
\* it comes to it, returns res; library tells the library's loop from the
\* daemon's, which differ in what they do with res.
capture_tick(library, loop, image, res) ==
    IF loop.c.pc # "run" THEN loop
    ELSE IF MemoryDuplicate(loop.c.previous, image)
    THEN [loop EXCEPT !.c.image = image, !.frames_deduped_memory = @ + 1]
    ELSE [loop EXCEPT !.c = IF library THEN LibCaptureAfterSend(@, image, res)
                                       ELSE CaptureAfterSend(@, image, res),
                      !.sent = Q1AfterSend(@, image, res),
                      !.frames_captured = @ + 1]

\* The same tick in both loops: the same snapshot, the same answer of Q1.
TwinTick(image, res) ==
    /\ twin.ticks < MaxTwinTicks
    /\ twin' = [ticks |-> twin.ticks + 1,
                daemon |-> capture_tick(FALSE, twin.daemon, image, res),
                lib |-> capture_tick(TRUE, twin.lib, image, res)]
    /\ UNCHANGED but_twin

\* The same tick with a snapshot that fails: both loops warn and go on.
TwinSnapshotError ==
    /\ twin.ticks < MaxTwinTicks
    /\ twin' = [twin EXCEPT !.ticks = @ + 1]
    /\ UNCHANGED but_twin

TwinNext ==
    \/ \E image \in Rasters, res \in {"ok", "full"} : TwinTick(image, res)
    \/ TwinSnapshotError

TwinSpec == Init /\ [][TwinNext]_vars

\* The library's capture task in front of the forwarder and the storage
\* task, on a display that shows the same solid grey raster at every tick.
LibNext ==
    \/ Tick
    \/ \E m \in Monitors : LibCaptureFrame(m, SolidGrey)
    \/ \E m \in Monitors : CaptureMemoryDedup(m, SolidGrey)
    \/ ForwarderRecv
    \/ ForwarderSendOk
    \/ StorageRecv
    \/ StorageIsDuplicate(TRUE)
    \/ StorageSaveJpeg(TRUE)
    \/ StorageInsertFrame(TRUE)

LibSpec == Init /\ [][LibNext]_vars

\* ------------------------------------------------------- the whole daemon
\* The JoinHandles in the order main awaits them.
NumHandles == NumMonitors + 3
Handle(i) ==
    IF i <= NumMonitors THEN [task |-> "capture", m |-> i]
    ELSE [task |-> <<"dedup", "storage", "metrics">>[i - NumMonitors], m |-> 0]

\* What tokio::time::timeout(10 s, handle).await gives main for handle h:
\* the task returned, the task panicked, or neither within the 10 s.
JoinResult(h) ==
    CASE h.task = "capture" ->
             IF cap[h.m].pc = "done" THEN "finished"
             ELSE IF cap[h.m].pc = "panicked" THEN "error" ELSE "timeout"
      [] h.task = "dedup" -> IF fwd.pc = "done" THEN "finished" ELSE "timeout"
      [] h.task = "storage" -> IF sto.pc = "done" THEN "finished" ELSE "timeout"
      [] OTHER -> IF met = "done" THEN "finished" ELSE "timeout"

\* The process lives until main returns.
Running == sup.pc # "exit"

\* A capture task panics: compare_ssim's expect("Images had different
\* dimensions") in frame_difference, when the display changed its resolution.
CapturePanic(m) ==
    /\ Running
    /\ cap[m].pc = "run"
    /\ cap[m].previous # NoImage
    /\ cap' = [cap EXCEPT ![m] = [pc |-> "panicked", previous |-> NoImage, image |-> NoImage]]
    /\ UNCHANGED <<now, shutdown, q1, fwd, q2, sto, store, metrics, met, outcome, obs, faults, host>>

\* One match on timeout(shutdown_timeout, handle).await: log the outcome, go on.
SupJoin_GiveUp ==
    /\ sup.pc = "main"
    /\ shutdown
    /\ Len(sup.joined) < NumHandles
    /\ LET h == Handle(Len(sup.joined) + 1)
           result == JoinResult(h)
       IN sup' = IF result = "finished"
                 THEN [sup EXCEPT !.joined = Append(@, [task |-> h.task, m |-> h.m, result |-> result])]
                 ELSE [sup EXCEPT !.pc = "exit", !.code = 1]
    /\ UNCHANGED <<now, shutdown, cap, q1, fwd, q2, sto, store, metrics, met, outcome, obs, faults, janitor, lab>>

SupJoin ==
    /\ sup.pc = "main"
    /\ shutdown
    /\ Len(sup.joined) < NumHandles
    /\ LET h == Handle(Len(sup.joined) + 1)
       IN sup' = [sup EXCEPT !.joined = Append(@, [task |-> h.task, m |-> h.m,
                                                   result |-> JoinResult(h)])]
    /\ UNCHANGED <<now, shutdown, cap, q1, fwd, q2, sto, store, metrics, met, outcome, obs, faults, janitor, lab>>

\* metrics.log_summary() after the last join.
SupSummary ==
    /\ sup.pc = "main"
    /\ Len(sup.joined) = NumHandles
    /\ sup' = [sup EXCEPT !.pc = "summary"]
    /\ UNCHANGED <<now, shutdown, cap, q1, fwd, q2, sto, store, metrics, met, outcome, obs, faults, janitor, lab>>

\* main returns Ok(()): the process exits with code 0 and every task ends.
SupExit ==
    /\ sup.pc = "summary"
    /\ sup' = [sup EXCEPT !.pc = "exit", !.code = 0]
    /\ UNCHANGED <<now, shutdown, cap, q1, fwd, q2, sto, store, metrics, met, outcome, obs, faults, janitor, lab>>

\* PgStorage::cleanup_old_data: DELETE FROM frames WHERE captured_at < cutoff.
cleanup_old_data(rows, retention) ==
    LET Keep(row) == row.captured_at >= now - retention
    IN SelectSeq(rows, Keep)

\* The daily cleanup task: its interval ticks ...
JanitorTick ==
    /\ Running
    /\ janitor = "sleep"
    /\ janitor' = "cleanup"
    /\ UNCHANGED <<now, shutdown, cap, q1, fwd, q2, sto, store, metrics, met, outcome, obs, faults, sup, lab>>

\* ... and it cleans the store and the image directories, then waits again.
\* The task has no shutdown branch: it was spawned before the shutdown
\* channel was made.
JanitorCleanup ==
    /\ Running
    /\ janitor = "cleanup"
    /\ janitor' = "sleep"
    /\ store' = cleanup_old_data(store, RetentionSecs)
    /\ UNCHANGED <<now, shutdown, cap, q1, fwd, q2, sto, metrics, met, outcome, obs, faults, sup, lab>>

SupNext ==
    \/ Running /\ Tick
    \/ \E m \in Monitors, image \in Rasters :
          Running /\ metrics.frames_captured < SupFrames /\ CaptureFrame(m, image)
    \/ \E m \in Monitors : Running /\ CaptureShutdown(m)
    \/ \E m \in Monitors : CapturePanic(m)
    \/ Running /\ ForwarderRecv
    \/ Running /\ ForwarderSendOk
    \/ Running /\ ForwarderSendClosed
    \/ Running /\ ForwarderShutdown
    \/ Running /\ StorageRecv
    \/ Running /\ StorageIsDuplicate(TRUE)
    \/ Running /\ StorageSaveJpeg(TRUE)
    \/ Running /\ StorageInsertFrame(TRUE)
    \/ Running /\ StorageClosed
    \/ Running /\ StorageShutdown
    \/ Running /\ StorageDrain
    \/ Running /\ StorageExit
    \/ Running /\ MetricsShutdown
    \/ Running /\ MainShutdown
    \/ JanitorTick
    \/ JanitorCleanup
    \/ SupJoin
    \/ SupSummary
    \/ SupExit

\* main is a task like the others: its awaits complete, each join within
\* its 10 s.
SupFairness ==
    /\ WF_vars(SupJoin)
    /\ WF_vars(SupSummary)
    /\ WF_vars(SupExit)

SupSpec == Init /\ [][SupNext]_vars /\ SupFairness

\* ------------------------------------------------------------ ImageStorage
\* What a call leaves in fsys.last.
Did(op, arg, n, ref) == [op |-> op, arg |-> arg, n |-> n, ref |-> ref]

\* Midnight UTC passes.
FsNextDay ==
    /\ fsys.day < MaxDay
    /\ fsys' = [fsys EXCEPT !.day = @ + 1, !.last = Did("other", 0, 0, NoRef)]
    /\ UNCHANGED but_fsys

Present == {n \in Names : fsys.entries[n].kind # "none"}

\* Somebody makes a directory, or a regular file, in the base directory.
FsCreate(n, entry) ==
    /\ fsys.entries[n].kind = "none"
    /\ Cardinality(Present) < MaxEntries
    /\ fsys' = [fsys EXCEPT !.entries[n] = entry, !.last = Did("other", 0, 0, NoRef)]
    /\ UNCHANGED but_fsys

\* Somebody writes a file into a directory, or into a directory below it.
FsWrite(n, deep) ==
    /\ fsys.entries[n].kind = "dir"
    /\ IF deep THEN fsys.entries[n].deep = 0 ELSE OtherFile \notin fsys.entries[n].files
    /\ fsys' = [fsys EXCEPT !.entries[n] = IF deep THEN [@ EXCEPT !.deep = 1]
                                           ELSE [@ EXCEPT !.files = @ \cup {OtherFile}],
                            !.last = Did("other", 0, 0, NoRef)]
    /\ UNCHANGED but_fsys

\* format!("{}.jpg", Uuid::new_v4()): a version-4 UUID, taken as a value no
\* earlier call returned.
new_filename_FromTimestamp(f, timestamp) == timestamp + 1

new_filename(f, timestamp) == f.uuid + 1

\* ImageStorage::save_jpeg(image, timestamp, quality) with timestamp on day
\* ts: create_dir_all fails when the date name is taken by a regular file;
\* File::create makes the file or truncates the one of that name.
save_jpeg(f, ts) ==
    LET date_dir == format_date(EpochDay + ts)
        filename == new_filename(f, ts)
    IN IF f.entries[date_dir].kind = "file"
       THEN [f EXCEPT !.last = Did("save_err", ts, 0, NoRef)]
       ELSE [f EXCEPT !.entries[date_dir] =
                          [kind |-> "dir", files |-> @.files \cup {filename}, deep |-> @.deep],
                      !.uuid = @ + 1,
                      !.refs = Append(@, [dir |-> date_dir, file |-> filename]),
                      !.last = Did("save", ts, 0, [dir |-> date_dir, file |-> filename])]

FsSaveJpeg(ts) ==
    /\ fsys.uuid < MaxSaves
    /\ ts <= fsys.day
    /\ fsys' = save_jpeg(fsys, ts)
    /\ UNCHANGED but_fsys

\* remove_dir_contents: the regular files directly inside the directory.
remove_dir_contents(entry) == Cardinality(entry.files)

\* ImageStorage::cleanup_old_images(retention_days): the directories it
\* removes, and what it leaves and returns.
OldImageDirs(f, retention_days) ==
    LET cutoff_date == format_date(EpochDay + f.day - retention_days)
    IN {n \in Names : /\ f.entries[n].kind = "dir"
                      /\ Len(n) = 10
                      /\ StrLess(n, cutoff_date)}

cleanup_old_images(f, retention_days) ==
    LET old == OldImageDirs(f, retention_days)
        removed == SumOver(old, [n \in Names |-> remove_dir_contents(f.entries[n])])
    IN [f EXCEPT !.entries = [n \in Names |-> IF n \in old THEN Absent ELSE @[n]],
                 !.last = Did("cleanup", retention_days, removed, NoRef)]

FsCleanup(retention_days) ==
    /\ fsys' = cleanup_old_images(fsys, retention_days)
    /\ UNCHANGED but_fsys

FsNext ==
    \/ FsNextDay
    \/ \E n \in Names : FsCreate(n, EmptyDir)
    \/ \E n \in Names : FsCreate(n, RegularFile)
    \/ \E n \in Names, deep \in BOOLEAN : FsWrite(n, deep)
    \/ \E ts \in Days : FsSaveJpeg(ts)
    \/ \E retention_days \in 0..MaxRetention : FsCleanup(retention_days)

FsSpec == Init /\ [][FsNext]_vars

\* ------------------------------------------------- FrameComparer, its calls
Configs ==
    [hash_early_exit : BOOLEAN, downscale_comparison : BOOLEAN,
     downscale_factor : {0, 6}, single_metric : BOOLEAN]

CmpNew(config) ==
    /\ ~cmp.made
    /\ cmp' = new(config)
    /\ UNCHANGED but_cmp

CmpCompare(image) ==
    /\ cmp.made
    /\ cmp.comparison_count < MaxCompares
    /\ cmp' = compare(cmp, image)
    /\ UNCHANGED but_cmp

CmpNext ==
    \/ \E config \in Configs : CmpNew(config)
    \/ \E image \in Images : CmpCompare(image)

CmpSpec == Init /\ [][CmpNext]_vars

\* ------------------------------------------------ status codes, their calls
StatusTypes == {"VisionStatus", "EmbeddingStatus"}

\* T::from(v) for an i16 read from the store.
ConvFrom(type, v) ==
    /\ conv.op = "idle"
    /\ conv' = [op |-> "from", type |-> type, code |-> v, back |-> "-",
                status |-> IF type = "VisionStatus" THEN VisionStatus_from(v)
                           ELSE EmbeddingStatus_from(v)]
    /\ UNCHANGED but_conv

\* status.to_smallint() for a status that is written to the store ...
ConvToSmallint(type, status) ==
    /\ conv.op = "idle"
    /\ conv' = [op |-> "to_smallint", type |-> type, status |-> status, back |-> "-",
                code |-> IF type = "VisionStatus" THEN VisionStatus_to_smallint(status)
                         ELSE EmbeddingStatus_to_smallint(status)]
    /\ UNCHANGED but_conv

\* ... and T::from of that code when the row is read back.
ConvReadBack ==
    /\ conv.op = "to_smallint"
    /\ conv' = [conv EXCEPT !.op = "read_back",
                            !.back = IF conv.type = "VisionStatus" THEN VisionStatus_from(conv.code)
                                     ELSE EmbeddingStatus_from(conv.code)]
    /\ UNCHANGED but_conv

ConvDone ==
    /\ conv.op \in {"from", "read_back"}
    /\ conv' = Idling
    /\ UNCHANGED but_conv

ConvNext ==
    \/ conv.op = "idle" /\ \E type \in StatusTypes, v \in I16 : ConvFrom(type, v)
    \/ \E type \in StatusTypes, status \in Statuses : ConvToSmallint(type, status)
    \/ ConvReadBack
    \/ ConvDone

ConvSpec == Init /\ [][ConvNext]_vars

\* ------------------------------------------- tasks on the runtime's threads
\* #[tokio::main]: the multi-thread runtime with one worker per core.
SchedStart(n) ==
    /\ sched.threads = 0
    /\ sched' = [sched EXCEPT !.threads = n]
    /\ UNCHANGED but_sched

OnWorker(t) == Place(t, sched.step[t]) = "worker"
Busy == Cardinality({t \in Tasks : OnWorker(t)})

StepAfter(t) ==
    LET body == Body(t)
        i == CHOOSE k \in DOMAIN body : body[k] = sched.step[t]
    IN body[(i % Len(body)) + 1]

\* Task t goes on to its next step. A step inside poll() needs the thread
\* the task already runs on, or a free one.
SchedAdvance(t) ==
    /\ sched.threads > 0
    /\ (Place(t, StepAfter(t)) = "worker" /\ ~OnWorker(t)) => Busy < sched.threads
    /\ sched' = [sched EXCEPT !.step[t] = StepAfter(t)]
    /\ UNCHANGED but_sched

SchedNext ==
    \/ \E n \in 1..MaxWorkers : SchedStart(n)
    \/ \E t \in Tasks : SchedAdvance(t)

SchedSpec == Init /\ [][SchedNext]_vars

\* ------------------------------------------- the pipeline with its timestamps
\* CaptureFrame with the field of CaptureMessage that no task reads:
\* timestamp, the instant taken right after the tick.  Both clocks of the
\* program, Instant and Utc, are the one clock now.
CaptureFrameWithTimestamp(m, image) ==
    /\ cap[m].pc = "run"
    /\ ~MemoryDuplicate(cap[m].previous, image)
    /\ metrics.frames_captured < MaxFrames
    /\ LET msg == [id |-> metrics.frames_captured + 1, monitor_id |-> m,
                   image |-> image, phash |-> phash64(image), at |-> "-",
                   timestamp |-> now]
           res == TrySend(q1, Q1Cap, Q1Closed)
       IN /\ q1' = Q1AfterSend(q1, msg, res)
          /\ cap' = [cap EXCEPT ![m] = CaptureAfterSend(@, image, res)]
    /\ metrics' = Bump("frames_captured")
    /\ UNCHANGED <<now, shutdown, fwd, q2, sto, store, met, outcome, obs, faults, host>>

StampNext ==
    \/ Tick
    \/ \E m \in Monitors, image \in Rasters : CaptureFrameWithTimestamp(m, image)
    \/ ForwarderRecv
    \/ ForwarderSendOk
    \/ StorageRecv
    \/ StorageIsDuplicate(TRUE)
    \/ StorageSaveJpeg(TRUE)
    \/ StorageInsertFrame(TRUE)

StampSpec == Init /\ [][StampNext]_vars

\* ------------------------------------------------- the capture task's ticks
\* tokio::time::interval(period) with the missed-tick behaviour it is made
\* with, Burst: the first tick completes at once, and each tick that
\* completes sets the next deadline one period after the deadline it had,
\* however late it is.
next_deadline(deadline, clock) == deadline + Period

\* Time passes while the task waits in tick.tick().
TimerWait ==
    /\ timer.clock < timer.deadline
    /\ timer' = [timer EXCEPT !.clock = @ + 1]
    /\ UNCHANGED but_timer

\* tick.tick() completes and the loop body runs, taking d units of time
\* (snapshot, comparison, hash, try_send) before the task is back at tick().
TimerTick(d) ==
    /\ timer.clock >= timer.deadline
    /\ Len(timer.starts) < MaxTicks
    /\ timer' = [clock |-> timer.clock + d,
                 deadline |-> next_deadline(timer.deadline, timer.clock),
                 starts |-> Append(timer.starts, timer.clock)]
    /\ UNCHANGED but_timer

TimerNext ==
    \/ TimerWait
    \/ \E d \in 0..MaxSlow : TimerTick(d)

TimerSpec == Init /\ [][TimerNext]_vars

\* ------------------------------------------------ the metrics task's log lines
\* PipelineConfig::default().channel_warn_threshold = 0.8, as a fraction.
WarnNum == 4
WarnDen == 5

\* Sender::capacity(): the free slots of the channel.
capacity(q, max_capacity) == max_capacity - Len(q)

\* The tick arm of run_metrics_task: log_summary() at INFO, the free slots of
\* both channels at DEBUG.  config.channel_warn_threshold is not read and no
\* warn! is in the function: the set of queues warned about is empty.
MetricsLog ==
    /\ met = "run"
    /\ mlog.wakeups < MaxWakeups
    /\ mlog' = [wakeups |-> mlog.wakeups + 1,
                capture_channel_capacity |-> capacity(q1, Q1Cap),
                storage_channel_capacity |-> capacity(q2, Q2Cap),
                warned |-> {}]
    /\ UNCHANGED but_mlog

QueueNext ==
    \/ \E m \in Monitors, image \in Rasters : CaptureFrame(m, image)
    \/ ForwarderRecv
    \/ ForwarderSendOk
    \/ StorageRecv
    \/ StorageIsDuplicate(TRUE)
    \/ StorageSaveJpeg(TRUE)
    \/ StorageInsertFrame(TRUE)
    \/ MetricsLog

QueueSpec == Init /\ [][QueueNext]_vars

\* ------------------------------------ rows and image files, written and cleaned
\* The storage task of the daemon with the image store behind save_jpeg and
\* the rows' image_ref and size; the clock is the calendar of the image
\* directories, every event of a day at the same time of day.
Sizes == 1..MaxSize

\* storage_rx.recv() returns an envelope whose captured_at is on day ts.
TakeEnvelope(ts) ==
    /\ vault.job.pc = "select"
    /\ fsys.uuid < MaxSaves
    /\ ts <= fsys.day
    /\ vault' = [vault EXCEPT !.job = [NoJob EXCEPT !.pc = "save", !.captured_at = ts]]
    /\ UNCHANGED but_vault

\* The task with an insert it makes whatever save_jpeg returned.
AfterSaveJpeg_InsertAnyway(job, ok, image_ref, file_size) ==
    [job EXCEPT !.pc = "insert",
                !.image_ref = IF ok THEN image_ref ELSE @,
                !.image_size_bytes = IF ok THEN file_size ELSE @]

\* The task after save_jpeg returned: Ok((image_ref, image_size_bytes)) binds
\* the two locals, Err continues with the next envelope.
AfterSaveJpeg(job, ok, image_ref, file_size) ==
    IF ok THEN [job EXCEPT !.pc = "insert", !.image_ref = image_ref,
                           !.image_size_bytes = file_size]
    ELSE NoJob

\* image_storage.save_jpeg(&frame.image, frame.captured_at, jpeg_quality)
\* returns; file_size is the length of the file the encoder wrote.  An Err
\* leaves the directories as they were.
SaveToDisk(ok, file_size) ==
    /\ vault.job.pc = "save"
    /\ LET f == save_jpeg(fsys, vault.job.captured_at)
           done == ok /\ f.last.op = "save"
       IN /\ fsys' = IF done THEN f ELSE fsys
          /\ vault' = [vault EXCEPT
                !.job = AfterSaveJpeg(@, done, f.last.ref, file_size),
                !.saved = IF done
                          THEN @ \cup {[image_ref |-> f.last.ref, size |-> file_size]}
                          ELSE @]
    /\ UNCHANGED but_fsys_vault

\* insert_frame(frame.captured_at, &deployment_id, None, None, &image_ref,
\* image_size_bytes as i64, phash): the row that is written.
frame_row(job) ==
    [captured_at |-> job.captured_at, image_ref |-> job.image_ref,
     image_size_bytes |-> job.image_size_bytes]

\* storage.insert_frame(...).await returns.
InsertRow(ok) ==
    /\ vault.job.pc = "insert"
    /\ vault' = [vault EXCEPT
          !.job = NoJob,
          !.rows = IF ok THEN Append(@, frame_row(vault.job)) ELSE @,
          !.frames_stored = IF ok THEN @ + 1 ELSE @]
    /\ UNCHANGED but_vault

\* DELETE FROM frames WHERE captured_at < cutoff.
delete_old_frames(rows, cutoff) ==
    LET Keep(row) == row.captured_at >= cutoff IN SelectSeq(rows, Keep)

\* The daily tick, then cleanup_old_data(retention).await: the rows older
\* than the cutoff are deleted, or the call fails, is logged, and the loop
\* body goes on.
CleanupData(db_ok) ==
    /\ vault.janitor = "sleep"
    /\ vault' = [vault EXCEPT
          !.janitor = "images",
          !.rows = IF db_ok THEN delete_old_frames(@, fsys.day - RetentionDays) ELSE @]
    /\ UNCHANGED but_vault

\* ... then cleanup_old_images(retention), and the task waits for the next day.
CleanupImages ==
    /\ vault.janitor = "images"
    /\ fsys' = cleanup_old_images(fsys, RetentionDays)
    /\ vault' = [vault EXCEPT !.janitor = "sleep"]
    /\ UNCHANGED but_fsys_vault

VaultNext ==
    \/ FsNextDay
    \/ \E ts \in Days : TakeEnvelope(ts)
    \/ \E ok \in BOOLEAN, file_size \in Sizes : SaveToDisk(ok, file_size)
    \/ \E ok \in BOOLEAN : InsertRow(ok)
    \/ \E db_ok \in BOOLEAN : CleanupData(db_ok)
    \/ CleanupImages

VaultSpec == Init /\ [][VaultNext]_vars

\* ------------------------------------------- the daemon on a drifting screen
\* The pipeline, running, in front of a display that shows the rasters of
\* Drifting; snapshots may fail.
DriftNext ==
    \/ \E m \in Monitors : CaptureSnapshotError(m)
    \/ \E m \in Monitors, image \in Drifting : CaptureMemoryDedup(m, image)
    \/ \E m \in Monitors, image \in Drifting : CaptureFrame(m, image)
    \/ ForwarderRecv
    \/ ForwarderSendOk
    \/ StorageRecv
    \/ StorageIsDuplicate(TRUE)
    \/ StorageSaveJpeg(TRUE)
    \/ StorageInsertFrame(TRUE)

DriftSpec == Init /\ [][DriftNext]_vars

\* --------------------------------------------- a store shared by deployments
\* Another host runs the same daemon against the same database: its rows
\* carry its own deployment_id.
OtherDeploymentId == "host-b"

ForeignRows == {i \in DOMAIN store : store[i].deployment_id # DeploymentId}

\* The other deployment stores a frame of raster image.
OtherDeploymentInsert(image) ==
    /\ Cardinality(ForeignRows) < MaxForeignRows
    /\ LET frame == [id |-> 0, captured_at |-> now, phash |-> phash64(image)]
       IN store' = Append(store, [insert_frame(frame) EXCEPT
                                     !.deployment_id = OtherDeploymentId])
    /\ UNCHANGED <<now, shutdown, cap, q1, fwd, q2, sto, metrics, met, outcome, obs, faults, host>>

SharedNext ==
    \/ Tick
    \/ \E image \in Rasters : OtherDeploymentInsert(image)
    \/ \E m \in Monitors, image \in Rasters :
          metrics.frames_captured < SceneFrames /\ CaptureFrame(m, image)
    \/ ForwarderRecv
    \/ ForwarderSendOk
    \/ StorageRecv
    \/ StorageIsDuplicate(TRUE)
    \/ StorageSaveJpeg(TRUE)
    \/ StorageInsertFrame(TRUE)

SharedSpec == Init /\ [][SharedNext]_vars

\* ------------------------------------- continuous_capture (capture crate)
\* FrameComparisonConfig { downscale_factor: 4, ..Default::default() }
LegacyConfig ==
    [hash_early_exit |-> TRUE, downscale_comparison |-> TRUE,
     downscale_factor |-> 4, single_metric |-> TRUE]

\* for attempt in 0..3
CAPTURE_ATTEMPTS == 3
\* if consecutive_failures > 10
MAX_CONSECUTIVE_FAILURES == 10
\* max_skip_duration = Duration::from_secs(10)
max_skip_duration == 10
\* skip_threshold = 0.01, in thousandths
skip_threshold == 10

\* How long a round takes from one capture to the next: the capture, the
\* comparison and the sleep that follows, in seconds.
Naps == {1, 9}

\* The statements before the loop: the comparer, last_capture_time, and
\* get_monitor_by_id, which returns None when no such monitor is listed.
LegacyStart(found) ==
    /\ legacy.pc = "start"
    /\ legacy' = IF found
                 THEN [legacy EXCEPT !.pc = "capture",
                                     !.frame_comparer = new(LegacyConfig),
                                     !.last_capture_time = legacy.clock]
                 ELSE [legacy EXCEPT !.pc = "returned", !.result = "Monitor not found"]
    /\ UNCHANGED but_legacy

\* capture_monitoring_safe: one attempt fails; refresh, sleep 100 ms, and the
\* next attempt, or Err after the last one.
LegacyAttemptFails ==
    /\ legacy.pc = "capture"
    /\ legacy' = [legacy EXCEPT
          !.attempt = @ + 1,
          !.refreshes = @ + 1,
          !.pc = IF legacy.attempt + 1 < CAPTURE_ATTEMPTS THEN "capture" ELSE "failed"]
    /\ UNCHANGED but_legacy

\* A loop that gives up when the counter reaches the limit.
gives_up_AtLimit(consecutive_failures) == consecutive_failures >= MAX_CONSECUTIVE_FAILURES

\* if consecutive_failures > 10 { return Err(..) }
gives_up(consecutive_failures) == consecutive_failures > MAX_CONSECUTIVE_FAILURES

\* The round's Err arm: count, give up above MAX_CONSECUTIVE_FAILURES, else
\* sleep a second and continue.
LegacyRoundFails ==
    /\ legacy.pc = "failed"
    /\ gives_up(legacy.consecutive_failures + 1) \/ legacy.clock + 1 <= MaxLegacyClock
    /\ legacy' = IF gives_up(legacy.consecutive_failures + 1)
                 THEN [legacy EXCEPT !.consecutive_failures = @ + 1,
                                     !.pc = "returned",
                                     !.result = "Too many consecutive capture failures"]
                 ELSE [legacy EXCEPT !.consecutive_failures = @ + 1,
                                     !.pc = "capture", !.attempt = 0, !.refreshes = 0,
                                     !.clock = @ + 1]
    /\ UNCHANGED but_legacy

\* force_capture with a limit that has to be passed, not reached.
force_capture_Strict(time_since_last) == time_since_last > max_skip_duration

\* force_capture = time_since_last >= max_skip_duration
force_capture(time_since_last) == time_since_last >= max_skip_duration

\* An attempt returns the raster image: the round's Ok arm, the comparison
\* and the decision to skip the frame or to keep it.
LegacyCapture(image) ==
    /\ legacy.pc = "capture"
    /\ legacy.frame_comparer.comparison_count < MaxCompares
    /\ LET compared == compare(legacy.frame_comparer, image)
           diff == compared.result
           time_since_last == legacy.clock - legacy.last_capture_time
           skip == diff < skip_threshold /\ ~force_capture(time_since_last)
       IN legacy' = [legacy EXCEPT
             !.pc = "sleep", !.attempt = 0, !.refreshes = 0,
             !.consecutive_failures = 0,
             !.frame_comparer = compared,
             !.diff = diff,
             !.kept = IF skip THEN "skip" ELSE "keep",
             !.last_capture_time = IF skip THEN @ ELSE legacy.clock,
             !.frame_counter = @ + 1]
    /\ UNCHANGED but_legacy

\* tokio::time::sleep(..) at the end of the round: d seconds later the loop
\* is back at its top.
LegacySleep(d) ==
    /\ legacy.pc = "sleep"
    /\ legacy.clock + d <= MaxLegacyClock
    /\ legacy' = [legacy EXCEPT !.pc = "capture", !.clock = @ + d]
    /\ UNCHANGED but_legacy

LegacyNext ==
    \/ \E found \in BOOLEAN : LegacyStart(found)
    \/ LegacyAttemptFails
    \/ LegacyRoundFails
    \/ \E image \in Images : LegacyCapture(image)
    \/ \E d \in Naps : LegacySleep(d)

LegacySpec == Init /\ [][LegacyNext]_vars

\* ------------------------------------------------------------------ claims
Processed(id) == outcome[id] # "none"

\* A frame of Q1 stays in Q1 or goes into the forwarder's hands.
StaysOrForwarded(frame) == frame \in Range(q1') \/ fwd'.frame.id = frame.id
\* The forwarder's envelope stays with it or goes into Q2.
StaysOrSent(frame) == fwd'.frame = frame \/ frame \in Range(q2')
\* An envelope of Q2 stays in Q2 or goes into the storage task's hands.
StaysOrTaken(frame) == frame \in Range(q2') \/ sto'.frame = frame
\* The storage task lets go of an envelope only with a counted outcome.
TakenIsProcessed ==
    (sto.frame # NoFrame /\ sto'.frame # sto.frame) => outcome'[sto.frame.id] # "none"

\* C1: a frame that the forwarder had dequeued from Q1 when shutdown was
\* broadcast (it was in the forwarder's hands or in Q2) is never discarded by
\* the forwarder nor dropped unread with Q2: it moves on until the storage
\* task has processed it.
C1_RetentionGuarantee ==
    [][/\ fwd.frame.at = "fwd" => StaysOrSent(fwd.frame)
       /\ \A i \in DOMAIN q2 : q2[i].at \in {"fwd", "q2"} => StaysOrTaken(q2[i])
       /\ TakenIsProcessed]_vars

\* C2 (as claimed): a frame that was in Q1 when shutdown was broadcast is
\* forwarded into Q2 and processed, and the forwarder does not leave on the
\* shutdown signal while Q1 holds frames.
C2_NoCapturedFrameLost ==
    [][/\ \A i \in DOMAIN q1 : q1[i].at = "q1" => StaysOrForwarded(q1[i])
       /\ fwd.frame.at = "q1" => StaysOrSent(fwd.frame)
       /\ \A i \in DOMAIN q2 : q2[i].at = "q1" => StaysOrTaken(q2[i])
       /\ (fwd.pc = "select" /\ fwd'.pc = "done") => q1 = <<>>
       /\ TakenIsProcessed]_vars

\* C2 (amended): every envelope that was in Q2 when shutdown was broadcast
\* is taken by the storage task and processed before the task exits.  (The
\* forwarder leaves on the signal whether or not Q1 holds frames.)
C2_QueuedEnvelopesProcessed ==
    [][/\ \A i \in DOMAIN q2 : q2[i].at = "q2" => StaysOrTaken(q2[i])
       /\ TakenIsProcessed]_vars

\* The drain loop has saved an envelope that was in Q2 at the broadcast,
\* after the forwarder left on the signal.
C2_Witness ==
    /\ sto.pc = "drain_insert"
    /\ sto.frame.at = "q2"
    /\ fwd.pc = "done"

StorageLeft == sto.pc \in {"stopped", "done"}

Abs(x) == IF x < 0 THEN -x ELSE x

\* C4: no two rows of one deployment have captured_at within
\* dedup_window_secs of each other and pHashes at Hamming distance <= 10.
C4_TwoTierDedup ==
    \A i, j \in DOMAIN store :
        (i # j /\ store[i].deployment_id = store[j].deployment_id
             /\ Abs(store[i].captured_at - store[j].captured_at) <= DedupWindowSecs)
        => hamming_distance(store[i].phash, store[j].phash) > DEDUP_THRESHOLD

\* A step in which capture task m counts a frame and try_send finds Q1 full.
CaptureFindsFull(m) ==
    /\ cap[m].pc = "run"
    /\ cap'[m] # cap[m]
    /\ metrics'.frames_captured = metrics.frames_captured + 1
    /\ Len(q1) = Q1Cap
    /\ ~Q1Closed

\* C5: when try_send finds Q1 full, Q1 is unchanged, the task keeps running
\* and previous is the raster of the dropped frame.
C5_DropNewest ==
    [][\A m \in Monitors : CaptureFindsFull(m) =>
          /\ q1' = q1
          /\ cap'[m].pc = "run"
          /\ cap'[m].image # cap[m].previous
          /\ cap'[m].previous = cap'[m].image]_vars

\* Q1 is full, the last counted frame is not in it and no receiver was
\* dropped: that frame met a full Q1, and previous is its raster.
C5_Witness ==
    /\ ~shutdown
    /\ Len(q1) = Q1Cap
    /\ q1[Len(q1)].id < metrics.frames_captured
    /\ fwd.pc # "done"
    /\ \E m \in Monitors : cap[m].previous # NoImage /\ cap[m].previous # q1[Len(q1)].image

\* The forwarder has taken nothing out of Q1 so far.
ForwarderNotConsuming ==
    /\ fwd = [pc |-> "select", frame |-> NoFrame]
    /\ q2 = <<>>
    /\ sto.frame = NoFrame
    /\ sto.pc # "done"
    /\ \A i \in FrameIds : ~Processed(i)

\* C6: with the forwarder not consuming, after n > cap(Q1) counted captures
\* Q1 holds exactly the first cap(Q1) frames, in capture order.
C6_BackPressure ==
    (ForwarderNotConsuming /\ metrics.frames_captured > Q1Cap)
    => /\ Len(q1) = Q1Cap
       /\ \A i \in DOMAIN q1 : q1[i].id = i

C6_Witness ==
    /\ ForwarderNotConsuming
    /\ metrics.frames_captured > Q1Cap
    /\ Len(q1) = Q1Cap

Held(frame) == IF frame = NoFrame THEN 0 ELSE 1
InFlight == Len(q1) + Held(fwd.frame) + Len(q2) + Held(sto.frame)

Increasing(q) == \A i, j \in DOMAIN q : i < j => q[i].id < q[j].id
Before(a, b) == (a # NoFrame /\ b # NoFrame) => a.id < b.id

IsDuplicateFails ==
    /\ sto.pc = "dedup"
    /\ sto' # sto
    /\ faults' = faults + 1

\* C9: when is_duplicate returns an error the task goes on to save_jpeg with
\* the same envelope and frames_deduped_db is unchanged; the envelope then
\* ends as stored or failed, never as a DB duplicate, and the task takes the
\* next envelope.
C9_DedupFailsOpen ==
    [][/\ IsDuplicateFails =>
             /\ sto'.pc = "save"
             /\ sto'.frame = sto.frame
             /\ metrics'.frames_deduped_db = metrics.frames_deduped_db
       /\ (sto.dedup = "err" /\ sto.pc = "save") =>
             \/ sto' = sto
             \/ sto'.pc = "insert" /\ sto'.frame = sto.frame /\ sto'.dedup = "err"
             \/ sto' = Idle /\ outcome'[sto.frame.id] = "save_failed"
       /\ (sto.dedup = "err" /\ sto.pc = "insert") =>
             \/ sto' = sto
             \/ sto' = Idle /\ outcome'[sto.frame.id] \in {"stored", "insert_failed"}]_vars

\* The duplicate check failed for an envelope that has a near-duplicate row
\* in the window; its JPEG is written and insert_frame is next.
C9_Witness ==
    /\ sto.pc = "insert"
    /\ sto.dedup = "err"
    /\ is_duplicate(sto.frame.phash, DedupWindowSecs) # {}
    /\ metrics.frames_deduped_db = 0

\* A step in which save_jpeg fails for the envelope the task holds.
SaveJpegFails ==
    /\ sto.pc \in {"save", "drain_save"}
    /\ sto' # sto
    /\ faults' = faults + 1

\* C10: when save_jpeg fails, frames_failed grows by 1, no row is inserted,
\* frames_stored is unchanged and the task goes on to the next envelope,
\* in the select! loop and in the drain.
C10_SaveJpegFailure ==
    [][SaveJpegFails =>
          /\ metrics'.frames_failed = metrics.frames_failed + 1
          /\ metrics'.frames_stored = metrics.frames_stored
          /\ store' = store
          /\ outcome'[sto.frame.id] = "save_failed"
          /\ sto' = IF sto.pc = "save" THEN Idle ELSE Draining]_vars

\* A save failed, no row was written for that envelope, and the task has
\* taken the next envelope.
C10_Witness ==
    /\ sto.frame.id > 1
    /\ outcome[sto.frame.id - 1] = "save_failed"
    /\ metrics.frames_failed = 1
    /\ sto.frame.id - 1 \notin Ids(store)

\* A step in which a snapshot fails: the only Err result that leaves the
\* storage task where it is.
SnapshotFails ==
    /\ faults' = faults + 1
    /\ sto' = sto

\* C11: when the snapshot fails on a tick, frames_failed grows by one,
\* nothing is enqueued into Q1, previous is unchanged and the capture task
\* keeps running.
C11_SnapshotFailure ==
    [][SnapshotFails =>
          /\ metrics'.frames_failed = metrics.frames_failed + 1
          /\ q1' = q1
          /\ cap' = cap]_vars

\* C12: no step of any task decreases a counter, and a step changes a
\* counter by at most +1.
C12_CounterMonotonicity ==
    [][\A c \in DOMAIN metrics : metrics'[c] \in {metrics[c], metrics[c] + 1}]_vars

\* Every counter has moved, the last of them in the shutdown drain.
C12_Witness ==
    /\ \A c \in DOMAIN metrics : metrics[c] >= 1
    /\ sto.pc = "done"
    /\ \E i \in DOMAIN store : store[i].id = metrics.frames_captured

AllStopped ==
    /\ \A m \in Monitors : cap[m].pc = "done"
    /\ fwd.pc = "done"
    /\ sto.pc = "done"
    /\ met = "done"

\* C13: once shutdown is broadcast, every capture task, the forwarder, the
\* storage task and the metrics task eventually return.
C13_Termination == shutdown ~> AllStopped

\* Shutdown was broadcast while the forwarder waited to send into a full Q2
\* and a capture task was still in its loop.
C13_Witness ==
    /\ shutdown
    /\ fwd.pc = "send"
    /\ fwd.frame.at = "fwd"
    /\ Len(q2) = Q2Cap
    /\ \E m \in Monitors : cap[m].pc = "run"

\* C14: every task main spawned, the daily cleanup task too, takes the
\* shutdown broadcast: once the capture tasks, the forwarder, the storage
\* task and the metrics task have all returned on it, no cleanup starts or
\* runs any more.
C14_EveryTaskSubscribed ==
    [][(shutdown /\ AllStopped) => janitor' = janitor]_vars

JoinedInOrder ==
    \A i \in DOMAIN sup.joined :
        /\ sup.joined[i].task = Handle(i).task
        /\ sup.joined[i].m = Handle(i).m

\* C15: after the termination signal main awaits the capture tasks, the
\* forwarder, the storage task and the metrics task in that order, and
\* whatever their outcomes it reaches the metrics summary and returns
\* success.
C15_SupervisorExit ==
    /\ [](JoinedInOrder /\ (sup.pc = "summary" => Len(sup.joined) = NumHandles))
    /\ [](sup.pc = "exit" => sup.code = 0)
    /\ (shutdown ~> sup.pc = "exit")

\* main has returned after a capture task that panicked, a forwarder that
\* did not return in time and a storage task that did.
C15_Witness ==
    /\ sup.pc = "exit"
    /\ sup.code = 0
    /\ \E i, j, k \in DOMAIN sup.joined :
          /\ sup.joined[i].result = "error"
          /\ sup.joined[j].result = "timeout"
          /\ sup.joined[k].result = "finished"

\* The top 16 bits of a hash read as a signed 16-bit number.
TopSigned16(phash) ==
    LET top == {b \in 0..15 : (b + 48) \in phash}
    IN SumPow2(top \ {15}) - (IF 15 \in top THEN 32768 ELSE 0)

BitsApart(a, b) == Cardinality({i \in 0..63 : (i \in a) # (i \in b)})

\* A stored row that makes phash a duplicate at this moment.
Matches(row, phash) ==
    /\ row.phash_prefix = TopSigned16(phash)
    /\ row.captured_at >= now - DedupWindowSecs
    /\ row.captured_at <= now
    /\ BitsApart(row.phash, phash) <= 10

\* The duplicate check of the storage task returns Some or None.
DuplicateCheckReturns == sto.pc = "dedup" /\ sto' # sto /\ faults' = faults

C16_WitnessTooOld ==
    /\ sto.pc = "dedup"
    /\ Len(store) = 1
    /\ store[1].phash_prefix = TopSigned16(sto.frame.phash)
    /\ BitsApart(store[1].phash, sto.frame.phash) <= 10
    /\ store[1].captured_at < now - DedupWindowSecs

\* The hashes the pipeline holds at this moment, stored or on their way.
HashesInFlight ==
    {q1[i].phash : i \in DOMAIN q1} \cup {q2[i].phash : i \in DOMAIN q2}
        \cup {f.phash : f \in {fwd.frame, sto.frame} \ {NoFrame}}

\* 0xABCD_1234_5678_9EF0, the hash of the example.
ExampleHash == phash64(9)

\* C17: every stored row's phash_prefix is the top 16 bits of its phash read
\* as a signed 16-bit number, also when the top bit of the phash is set (the
\* example hash 0xABCD_1234_5678_9EF0 gives 0xABCD as i16 = -21555), and the
\* capture crate's hash_prefix gives the same value as the store crate's on
\* every hash.
C17_PrefixConsistency ==
    /\ \A i \in DOMAIN store :
          /\ store[i].phash_prefix = TopSigned16(store[i].phash)
          /\ store[i].phash_prefix \in -32768..32767
          /\ store[i].phash_prefix = dedup_hash_prefix(store[i].phash)
          /\ store[i].phash = ExampleHash => store[i].phash_prefix = 43981 - 65536
    /\ \A h \in HashesInFlight : dedup_hash_prefix(h) = hash_prefix(h)

\* The example hash is stored, in a row with a negative prefix, next to a
\* row with a positive one.
C17_Witness ==
    /\ Len(store) = 2
    /\ store[1].phash = ExampleHash
    /\ store[1].phash_prefix < 0
    /\ store[2].phash_prefix > 0

\* The frames that went into Q1: those still in a queue or in a task's
\* hands, and those the storage task is done with.
Enqueued ==
    ((Ids(q1) \cup Ids(q2) \cup {fwd.frame.id, sto.frame.id}) \ {NoFrame.id})
        \cup {i \in FrameIds : outcome[i] # "none"}

\* No try_send has found Q1 full: every frame counted in frames_captured
\* went into Q1.
Q1NeverFull == Cardinality(Enqueued) = metrics.frames_captured

\* Ticks of the display so far (every snapshot succeeds in this scene).
Snapshots == metrics.frames_captured + metrics.frames_deduped_memory

\* C18: on a display that yields the same raster at every tick, while Q1 has
\* never been full, one frame is enqueued and stored (at most one row), all
\* later snapshots are memory duplicates and none is a database duplicate.
C18_NoChangeScene ==
    (Q1NeverFull /\ Snapshots >= 1) =>
        /\ Cardinality(Enqueued) = 1
        /\ metrics.frames_deduped_memory = Snapshots - 1
        /\ metrics.frames_deduped_db = 0
        /\ Len(store) <= 1

\* Every stored row is still inside the duplicate window.
AllRowsRecent == \A i \in DOMAIN store : store[i].captured_at >= now - DedupWindowSecs

\* The frames the storage task is done with.
Settled == {i \in FrameIds : outcome[i] # "none"}

\* C19: on a display that alternates solid black and solid white, with a
\* healthy store and every row inside the window, each frame the storage
\* task has handled is a row of its own and no frame is counted as a
\* duplicate. (The claim's reason, hashes more than 10 bits apart, is what
\* fails: phash64 sets all 64 bits for both rasters.)
C19_AlternatingScene ==
    AllRowsRecent =>
        /\ metrics.frames_deduped_memory = 0
        /\ metrics.frames_deduped_db = 0
        /\ Len(store) = Cardinality(Settled)

\* The store holds a row, still inside the window, whose hash differs from
\* the hash under check in exactly 3 bits.
ThreeBitNeighbourStored ==
    \E i \in DOMAIN store :
        /\ BitsApart(store[i].phash, sto.frame.phash) = 3
        /\ store[i].captured_at >= now - DedupWindowSecs

\* C20: when the storage task checks an envelope whose hash is exactly 3 bits
\* (any 3) away from that of an envelope it stored within the window, with a
\* healthy store, the check sees that row: the envelope is counted in
\* frames_deduped_db and dropped, and no second row is written.
C20_NearDuplicateBurst ==
    [][(DuplicateCheckReturns /\ ThreeBitNeighbourStored) =>
         /\ metrics'.frames_deduped_db = metrics.frames_deduped_db + 1
         /\ sto' = Idle
         /\ store' = store]_vars

\* n matches ^\d{4}-\d{2}-\d{2}$.
IsDigit(c) == c \in {"0", "1", "2", "3", "4", "5", "6", "7", "8", "9"}
IsDateName(n) ==
    /\ Len(n) = 10
    /\ \A i \in 1..10 : IF i \in {5, 8} THEN n[i] = "-" ELSE IsDigit(n[i])

\* A call of cleanup_old_images returns.
CleanupReturns == fsys'.last.op = "cleanup" /\ fsys' # fsys

\* The entries a step takes away, and the regular files that go with them.
Removed == {n \in Names : fsys.entries[n].kind # "none" /\ fsys'.entries[n].kind = "none"}
FilesBelow(S) ==
    SumOver(S, [n \in Names |-> Cardinality(fsys.entries[n].files) + fsys.entries[n].deep])

\* C21: cleanup_old_images leaves every entry whose name is not of the form
\* YYYY-MM-DD as it is, whatever its length and its place in the order of
\* strings, and counts none of its files.
C21_NonDateNamesIgnored ==
    [][CleanupReturns =>
         /\ \A n \in Names : ~IsDateName(n) => fsys'.entries[n] = fsys.entries[n]
         /\ fsys'.last.n <= FilesBelow({n \in Removed : IsDateName(n)})]_vars

\* The names of the days before (today - retention_days).
OlderDates(retention_days) ==
    {format_date(EpochDay + d) : d \in {x \in Days : x < fsys.day - retention_days}}

\* C22: cleanup_old_images(r) removes exactly the date directories dated
\* before today - r days, leaves everything else (today's directory and the
\* cutoff's among it) as it is, and returns the number of regular files that
\* went away.
C22_CleanupRemovesOldDirs ==
    [][CleanupReturns =>
         /\ Removed = {n \in OlderDates(fsys'.last.arg) : fsys.entries[n].kind = "dir"}
         /\ \A n \in Names \ Removed : fsys'.entries[n] = fsys.entries[n]
         /\ fsys'.last.n = FilesBelow(Removed)]_vars

\* What does hold: the same where the base directory holds nothing but date
\* directories, and those nothing but regular files.
C22_OnFlatDateDirsOnly ==
    [][(CleanupReturns /\ \A n \in Present : IsDateName(n) /\ fsys.entries[n].deep = 0) =>
         /\ Removed = {n \in OlderDates(fsys'.last.arg) : fsys.entries[n].kind = "dir"}
         /\ \A n \in Names \ Removed : fsys'.entries[n] = fsys.entries[n]
         /\ fsys'.last.n = FilesBelow(Removed)]_vars

\* A call of save_jpeg returns Ok((image_ref, size)).
SaveReturns == fsys'.last.op = "save" /\ fsys' # fsys

\* C23: every image_ref save_jpeg returns differs from every one returned
\* before (also for the same timestamp, so no file is written over), is the
\* UTC date of the timestamp passed in, as YYYY-MM-DD, followed by a file
\* name, and names a file that is there when the call returns.
C23_ImageRefInvariant ==
    /\ [](\A i, j \in DOMAIN fsys.refs : fsys.refs[i] = fsys.refs[j] => i = j)
    /\ [][SaveReturns =>
            LET ref == fsys'.last.ref
            IN /\ \A i \in DOMAIN fsys.refs : fsys.refs[i] # ref
               /\ IsDateName(ref.dir)
               /\ civil_from_days(EpochDay + fsys'.last.arg) =
                      [y |-> IF fsys'.last.arg = 0 THEN 2019 ELSE 2020,
                       m |-> IF fsys'.last.arg = 0 THEN 12 ELSE 1,
                       d |-> IF fsys'.last.arg = 0 THEN 31 ELSE fsys'.last.arg]
               /\ ref.dir = format_date(EpochDay + fsys'.last.arg)
               /\ ref.file \notin fsys.entries[ref.dir].files
               /\ fsys'.entries[ref.dir].kind = "dir"
               /\ ref.file \in fsys'.entries[ref.dir].files
               /\ fsys.entries[ref.dir].files \subseteq fsys'.entries[ref.dir].files]_vars

\* Two saves with the same timestamp, both files in the same date directory.
C23_Witness ==
    /\ Len(fsys.refs) = 2
    /\ fsys.refs[1].dir = fsys.refs[2].dir
    /\ fsys.last.op = "save"
    /\ {fsys.refs[1].file, fsys.refs[2].file} \subseteq fsys.entries[fsys.refs[1].dir].files

\* The first compare call on a comparer returns.
FirstCompare == cmp.made /\ cmp.comparison_count = 0 /\ cmp'.comparison_count = 1

\* The bytes a comparer with this configuration keeps of a raster.
Kept(config, image) ==
    IF config.downscale_comparison THEN downscale(config, image) ELSE image

\* C24: whatever the configuration, the first compare on a fresh comparer
\* returns exactly 1.0 and leaves the raster it was given as the previous
\* frame (its hash too when hashes are in use), so the second call compares
\* against it.
C24_FirstFrame ==
    /\ [][FirstCompare =>
            /\ cmp'.result = 1000
            /\ cmp'.hash_hits = 0
            /\ IF cmp.config.downscale_comparison
               THEN cmp'.previous_image_downscaled = Kept(cmp.config, cmp'.image)
                    /\ cmp'.previous_image_full = None
               ELSE cmp'.previous_image_full = cmp'.image
                    /\ cmp'.previous_image_downscaled = None
            /\ cmp.config.hash_early_exit
                  => cmp'.previous_hash = hash_image(Kept(cmp.config, cmp'.image))]_vars
    /\ [][(cmp.comparison_count = 1 /\ cmp'.comparison_count = 2) =>
            cmp'.result =
                IF cmp.config.hash_early_exit
                   /\ hash_image(Kept(cmp.config, cmp.image)) = hash_image(Kept(cmp.config, cmp'.image))
                THEN 0
                ELSE compare_histogram(Kept(cmp.config, cmp.image), Kept(cmp.config, cmp'.image))]_vars

\* A first call without hashes and without downscaling, and a second call
\* that was compared against it.
C24_Witness ==
    /\ cmp.comparison_count = 2
    /\ ~cmp.config.hash_early_exit
    /\ ~cmp.config.downscale_comparison
    /\ ~cmp.config.single_metric
    /\ cmp.result = 1

\* A compare call returns.
CompareReturns == cmp'.comparison_count = cmp.comparison_count + 1

\* C25: with hash_early_exit on, a compare call given the raster of the call
\* just before it, at whatever place in the sequence, returns exactly 0.0 and
\* adds one to hash_hits; after every call previous_hash is the hash of the
\* raster that call was given.
C25_IdentityShortCircuit ==
    /\ [][(CompareReturns /\ cmp.config.hash_early_exit
              /\ cmp.comparison_count >= 1 /\ cmp'.image = cmp.image) =>
            /\ cmp'.result = 0
            /\ cmp'.hash_hits = cmp.hash_hits + 1]_vars
    /\ []((cmp.config.hash_early_exit /\ cmp.comparison_count >= 1) =>
            cmp.previous_hash = hash_image(Kept(cmp.config, cmp.image)))

\* A repeat that is caught at the third call, after a second call that was
\* compared in full.
C25_Witness ==
    /\ cmp.config.hash_early_exit
    /\ cmp.comparison_count = 3
    /\ cmp.hash_hits = 1
    /\ cmp.result = 0
    /\ cmp.image = 2

\* C26: for both status types, to_smallint gives Pending, Processed, Failed,
\* Skipped the codes 0, 1, 2, 3; reading a written code back gives the status
\* that was written; and every i16 other than 1, 2, 3 (negative ones too)
\* reads as Pending.
C26_StatusRoundTrip ==
    /\ conv.op \in {"to_smallint", "read_back"} =>
          conv.code = CHOOSE k \in 0..3 :
                          <<"Pending", "Processed", "Failed", "Skipped">>[k + 1] = conv.status
    /\ conv.op = "read_back" => conv.back = conv.status
    /\ conv.op = "from" =>
          /\ conv.status \in Statuses
          /\ conv.code \notin {1, 2, 3} => conv.status = "Pending"
          /\ conv.code \in {1, 2, 3} => conv.status # "Pending"

\* A negative code was read, and a Skipped was written and read back.
C26_WitnessNegative == conv.op = "from" /\ conv.code = -32768 /\ conv.type = "EmbeddingStatus"

C26_Witness ==
    conv.op = "read_back" /\ conv.status = "Skipped" /\ conv.code = 3 /\ conv.type = "VisionStatus"

\* The storage task is in its shutdown branch, or past it.
InDrain == sto.pc \in {"drain", "drain_save", "drain_insert"}
StorageSteps == sto' # sto

\* C27: from its shutdown branch on, the storage task never calls
\* is_duplicate; each envelope it takes from Q2 (the head) goes to save_jpeg
\* and, when that succeeds, to insert_frame, else it is counted as failed;
\* it leaves the loop only when try_recv finds Q2 empty, and then it ends
\* without taking anything more from Q2.
C27_DrainPath ==
    /\ [][(InDrain /\ StorageSteps) =>
            /\ sto'.pc \in {"drain", "drain_save", "drain_insert", "stopped"}
            /\ metrics'.frames_deduped_db = metrics.frames_deduped_db]_vars
    /\ [][(sto.pc = "drain" /\ StorageSteps) =>
            IF q2 # <<>>
            THEN sto'.pc = "drain_save" /\ sto'.frame = Head(q2) /\ q2' = Tail(q2)
            ELSE sto'.pc = "stopped" /\ q2' = q2]_vars
    /\ [][(sto.pc = "drain_save" /\ StorageSteps) =>
            IF faults' = faults
            THEN sto'.pc = "drain_insert" /\ sto'.frame = sto.frame /\ metrics' = metrics
            ELSE /\ sto' = Draining
                 /\ metrics'.frames_failed = metrics.frames_failed + 1
                 /\ store' = store]_vars
    /\ [][(sto.pc = "drain_insert" /\ StorageSteps) =>
            /\ sto' = Draining
            /\ IF faults' = faults
               THEN /\ Len(store') = Len(store) + 1
                    /\ store'[Len(store')].id = sto.frame.id
                    /\ metrics'.frames_stored = metrics.frames_stored + 1
               ELSE /\ store' = store
                    /\ metrics'.frames_failed = metrics.frames_failed + 1]_vars
    /\ [][sto.pc \in {"stopped", "done"} =>
            /\ sto'.pc \in {"stopped", "done"}
            /\ sto'.frame = NoFrame
            /\ store' = store
            /\ metrics'.frames_stored = metrics.frames_stored]_vars

\* The drain is about to insert an envelope that a row of the store would
\* have made a duplicate in the running loop, with more waiting in Q2.
C27_Witness ==
    /\ sto.pc = "drain_insert"
    /\ q2 # <<>>
    /\ is_duplicate(sto.frame.phash, DedupWindowSecs) # {}

\* The snapshot and the CPU-bound steps.
HeavySteps == {"capture_image", "frame_difference", "phash64", "save_jpeg"}

\* A task that is suspended at an await could go on but finds no free thread.
Starved(t) == Place(t, sched.step[t]) # "worker" /\ Busy >= sched.threads

\* C28: the snapshot, the frame comparison, the pHash and the JPEG encode
\* and write never run on a worker thread of the runtime, so no task is kept
\* from going on because such a step holds the thread it needs.
C28_BlockingDiscipline ==
    /\ \A t \in Tasks : sched.step[t] \in HeavySteps => Place(t, sched.step[t]) = "blocking"
    /\ \A t \in Tasks :
          Starved(t) => \A u \in Tasks : OnWorker(u) => sched.step[u] \notin HeavySteps

\* C29: the captures of one task start at least one tick period apart, also
\* after an iteration that took longer than the period: the ticks it missed
\* are skipped, not run back to back.
C29_NoCatchUp ==
    \A i \in DOMAIN timer.starts :
        i > 1 => timer.starts[i] - timer.starts[i - 1] >= Period

\* The forwarder takes a frame from Q1 in this step.
Dequeues == fwd.pc = "select" /\ fwd'.pc = "send"

\* The forwarder's envelope enters Q2 in this step.
EntersQ2 == fwd.pc = "send" /\ fwd'.pc = "select" /\ Len(q2') = Len(q2) + 1

NonDecreasing(times) ==
    \A i, j \in DOMAIN times : i <= j => times[i] <= times[j]

\* captured_at of everything past the forwarder, oldest first: the rows, the
\* envelope the storage task holds, Q2, the envelope the forwarder holds.
StampsInOrder ==
    [i \in DOMAIN store |-> store[i].captured_at]
    \o (IF sto.frame = NoFrame THEN <<>> ELSE <<sto.frame.captured_at>>)
    \o [i \in DOMAIN q2 |-> q2[i].captured_at]
    \o (IF fwd.pc = "send" THEN <<fwd.frame.captured_at>> ELSE <<>>)

C30_WitnessLater ==
    /\ fwd.pc = "send"
    /\ \E i \in DOMAIN q2 : q2[i].captured_at < fwd.frame.captured_at

\* The queues whose occupancy is above channel_warn_threshold times their
\* capacity.
AboveThreshold ==
    {name \in {"q1"} : Len(q1) * WarnDen > WarnNum * Q1Cap}
    \cup {name \in {"q2"} : Len(q2) * WarnDen > WarnNum * Q2Cap}

\* C31: at every wake-up of the metrics task a warning is emitted for exactly
\* the queues whose occupancy exceeds channel_warn_threshold times their
\* capacity.
C31_QueueDepthWarning ==
    [][mlog'.wakeups = mlog.wakeups + 1 => mlog'.warned = AboveThreshold]_vars

\* The three outcome counters of the storage task, added up.
Outcomes == metrics.frames_deduped_db + metrics.frames_stored + metrics.frames_failed

\* The storage task is done with the envelope it held.
LetsGo == sto.frame # NoFrame /\ sto'.frame # sto.frame

OutcomeCounters == {"frames_deduped_db", "frames_stored", "frames_failed"}

\* C32: when the storage task is done with an envelope, in the select! loop
\* or in the drain, exactly one of frames_deduped_db, frames_stored and
\* frames_failed has grown, by one; no other step changes them; so their sum
\* is the number of envelopes the task has finished with.
C32_OneOutcomePerEnvelope ==
    /\ [][IF LetsGo
          THEN \E c \in OutcomeCounters :
                  /\ metrics'[c] = metrics[c] + 1
                  /\ \A d \in OutcomeCounters \ {c} : metrics'[d] = metrics[d]
          ELSE \A c \in OutcomeCounters : metrics'[c] = metrics[c]]_vars
    /\ [](Outcomes = Cardinality({id \in FrameIds : Processed(id)}))

\* Each of the three outcomes has happened, one of them in the drain.
C32_Witness ==
    /\ metrics.frames_deduped_db >= 1
    /\ metrics.frames_stored >= 1
    /\ metrics.frames_failed >= 1
    /\ sto.pc = "drain"

\* A tick of some capture task obtains a snapshot in this step (the first
\* conjunct is implied by the second and only spares its evaluation).
SnapshotTaken ==
    /\ UNCHANGED <<now, shutdown, fwd, q2, sto>>
    /\ \E m \in Monitors, image \in Rasters :
          CaptureMemoryDedup(m, image) \/ CaptureFrame(m, image)

\* C33: the three outcome counters add up to at most frames_captured; a
\* frame enters Q1 only in a step that counts it in frames_captured, so at
\* most frames_captured frames were ever enqueued; and frames_captured +
\* frames_deduped_memory grows by one at exactly the ticks that obtained a
\* snapshot.
C33_CounterConservation ==
    /\ [](Outcomes <= metrics.frames_captured)
    /\ [](Len(q1) + Len(q2) + Outcomes <= metrics.frames_captured)
    /\ [][Len(q1') > Len(q1) =>
            /\ Len(q1') = Len(q1) + 1
            /\ metrics'.frames_captured = metrics.frames_captured + 1]_vars
    /\ [][IF SnapshotTaken THEN Snapshots' = Snapshots + 1
                           ELSE Snapshots' = Snapshots]_vars

\* Every counted frame is accounted for and the counters differ: a tick was
\* a memory duplicate, frames were dropped at a full Q1, the rest was
\* processed.
C33_Witness ==
    /\ ~shutdown
    /\ metrics.frames_deduped_memory >= 1
    /\ metrics.frames_captured = MaxFrames
    /\ q1 = <<>> /\ q2 = <<>> /\ fwd.pc = "select" /\ sto.pc = "select"
    /\ Outcomes >= 1
    /\ Outcomes < metrics.frames_captured

\* What the successful calls of save_jpeg returned for the row.
SavedFor(row) == [image_ref |-> row.image_ref, size |-> row.image_size_bytes]

\* C34: insert_frame is called for an envelope only after save_jpeg returned
\* Ok for it, with the image_ref and the size that call returned: every row
\* carries an (image_ref, size) some successful save_jpeg returned, in the
\* date directory of its captured_at, no two rows share one, and
\* frames_stored never exceeds the number of successful saves.
C34_JpegBeforeRow ==
    /\ \A i \in DOMAIN vault.rows :
          /\ SavedFor(vault.rows[i]) \in vault.saved
          /\ vault.rows[i].image_ref.dir = format_date(EpochDay + vault.rows[i].captured_at)
    /\ \A i, j \in DOMAIN vault.rows :
          vault.rows[i].image_ref = vault.rows[j].image_ref => i = j
    /\ vault.job.pc = "insert" =>
          [image_ref |-> vault.job.image_ref, size |-> vault.job.image_size_bytes]
              \in vault.saved
    /\ vault.frames_stored <= Cardinality(vault.saved)

\* A row was inserted for one saved JPEG, and another JPEG was saved whose
\* insert failed: an orphan file without a row.
C34_Witness ==
    /\ vault.job.pc = "select"
    /\ vault.frames_stored = 1
    /\ Len(vault.rows) = 1
    /\ Cardinality(vault.saved) = 2

\* The file the row's image_ref names is on disk.
FileExists(f, row) ==
    /\ f.entries[row.image_ref.dir].kind = "dir"
    /\ row.image_ref.file \in f.entries[row.image_ref.dir].files

\* The daily cleanup finishes its second call in this step.
CycleEnds == vault.janitor = "images" /\ vault'.janitor = "sleep"

\* C35: when a run of the daily cleanup (cleanup_old_data, then
\* cleanup_old_images with the same retention_days) is over, every row left in
\* the store names an image file that is on disk, also when cleanup_old_data
\* failed or deleted nothing.
C35_NoDanglingRows ==
    [][CycleEnds => \A i \in DOMAIN vault'.rows : FileExists(fsys', vault'.rows[i])]_vars

\* The same, for the runs in which cleanup_old_data returned Ok and no row
\* was inserted between the two calls.
C35_WhenDataCleanupSucceeds ==
    [][CycleEnds /\ (\A i \in DOMAIN vault.rows :
                        vault.rows[i].captured_at >= fsys.day - RetentionDays)
         => \A i \in DOMAIN vault'.rows : FileExists(fsys', vault'.rows[i])]_vars

\* Capture task m counts a frame in this step: its snapshot passed the
\* in-memory dedup.
PassesMemoryDedup(m) ==
    /\ cap[m].pc = "run"
    /\ cap'[m] # cap[m]
    /\ metrics'.frames_captured = metrics.frames_captured + 1

\* C36: previous_image of a capture task of the daemon is the raster of the
\* last frame of its display that passed the in-memory dedup, whether Q1 took
\* the frame or was full; it is None until then, a frame dropped as a memory
\* duplicate does not become previous_image, and a failed snapshot leaves it
\* as it was.
C36_PreviousIsLastPassed ==
    /\ [](metrics.frames_captured = 0 => \A m \in Monitors : cap[m].previous = NoImage)
    /\ [][\A m \in Monitors :
            IF PassesMemoryDedup(m) /\ cap'[m].pc = "run"
            THEN /\ cap'[m].previous = cap'[m].image
                 /\ ~MemoryDuplicate(cap[m].previous, cap'[m].previous)
                 /\ Len(q1') > Len(q1) => q1'[Len(q1')].image = cap'[m].previous
            ELSE cap'[m].pc = "run" => cap'[m].previous = cap[m].previous]_vars
    /\ [][SnapshotFails => cap' = cap]_vars

\* The last snapshot was dropped as a memory duplicate of an earlier frame it
\* is not identical to, and previous_image is still that earlier frame.
C36_Witness ==
    \E m \in Monitors :
        /\ cap[m].pc = "run"
        /\ metrics.frames_deduped_memory >= 1
        /\ cap[m].previous # NoImage
        /\ cap[m].image # cap[m].previous
        /\ MemoryDuplicate(cap[m].previous, cap[m].image)

\* C37: fed the same snapshots and the same answers of Q1, the library's
\* capture loop and the daemon's have enqueued the same frames, hold the same
\* previous raster and show the same frames_captured and
\* frames_deduped_memory after every tick.
C37_CaptureStagesEquivalent ==
    /\ twin.daemon.sent = twin.lib.sent
    /\ twin.daemon.c.previous = twin.lib.c.previous
    /\ twin.daemon.frames_captured = twin.lib.frames_captured
    /\ twin.daemon.frames_deduped_memory = twin.lib.frames_deduped_memory

\* The storage task drops its envelope as a database duplicate in this step.
DropsAsDbDuplicate == metrics'.frames_deduped_db = metrics.frames_deduped_db + 1

\* C38: the storage task of a deployment drops an envelope as a database
\* duplicate only if a similar frame with its own deployment_id is stored
\* within the window; a similar frame of another deployment causes no drop.
C38_DedupWithinDeployment ==
    [][DropsAsDbDuplicate =>
          \E i \in DOMAIN store :
              /\ store[i].deployment_id = DeploymentId
              /\ store[i].captured_at >= now - DedupWindowSecs
              /\ hamming_distance(sto.frame.phash, store[i].phash) <= DEDUP_THRESHOLD]_vars

\* A round of continuous_capture ends with a frame in this step.
RoundSucceeds == legacy'.frame_counter = legacy.frame_counter + 1

\* capture_monitoring_safe makes at most CAPTURE_ATTEMPTS attempts a round and
\* has refreshed the monitor once for every attempt that failed; a round that
\* succeeds sets the failure counter to 0.
AttemptsAndReset ==
    /\ [](/\ legacy.attempt <= CAPTURE_ATTEMPTS
          /\ legacy.pc = "capture" => legacy.attempt < CAPTURE_ATTEMPTS
          /\ legacy.pc = "failed" => legacy.attempt = CAPTURE_ATTEMPTS
          /\ legacy.pc \in {"capture", "failed"} => legacy.refreshes = legacy.attempt)
    /\ [][RoundSucceeds => legacy'.consecutive_failures = 0]_vars

\* C39 (as claimed): at most 3 attempts a round with a refresh after each
\* failed one, the counter reset by every successful round, and
\* continuous_capture returns, with an error, exactly when the counter
\* exceeds 10.
C39_RetryLogic ==
    /\ AttemptsAndReset
    /\ [](legacy.pc = "returned" <=> legacy.consecutive_failures > MAX_CONSECUTIVE_FAILURES)

\* C39 (amended): the same, except that continuous_capture also returns an
\* error before its first round when its monitor is not found; once in the
\* loop it returns exactly when the counter exceeds 10, which is at the 11th
\* consecutive failed round.
C39_RetryLogicInLoop ==
    /\ AttemptsAndReset
    /\ [](legacy.consecutive_failures <= MAX_CONSECUTIVE_FAILURES + 1)
    /\ [](legacy.consecutive_failures > MAX_CONSECUTIVE_FAILURES => legacy.pc = "returned")
    /\ [](legacy.pc = "returned" =>
             \/ /\ legacy.result = "Monitor not found"
                /\ legacy.frame_counter = 0
                /\ legacy.consecutive_failures = 0
             \/ /\ legacy.result = "Too many consecutive capture failures"
                /\ legacy.consecutive_failures = MAX_CONSECUTIVE_FAILURES + 1)

\* The loop has returned at the 11th consecutive failed round, after a round
\* that had succeeded.
C39_Witness ==
    /\ legacy.pc = "returned"
    /\ legacy.consecutive_failures = MAX_CONSECUTIVE_FAILURES + 1
    /\ legacy.frame_counter >= 1

\* Seconds since the frame last kept, at the moment a frame is compared.
SinceLastKept == legacy.clock - legacy.last_capture_time

\* C40: a captured frame is skipped exactly when its distance is below
\* skip_threshold and fewer than max_skip_duration seconds have passed since
\* the last kept frame; so a frame captured max_skip_duration or more after
\* the last kept one is kept whatever its distance; and last_capture_time
\* moves only when a frame is kept, to the time of that frame.
C40_SkipPolicy ==
    [][/\ RoundSucceeds =>
            /\ legacy'.kept = "skip" <=>
                  /\ legacy'.diff < skip_threshold
                  /\ SinceLastKept < max_skip_duration
            /\ SinceLastKept >= max_skip_duration => legacy'.kept = "keep"
            /\ legacy'.kept \in {"skip", "keep"}
            /\ legacy'.last_capture_time =
                  IF legacy'.kept = "keep" THEN legacy.clock
                  ELSE legacy.last_capture_time
       /\ legacy'.last_capture_time # legacy.last_capture_time =>
            RoundSucceeds /\ legacy'.kept = "keep"]_vars

\* A frame identical to the previous one was kept: max_skip_duration had
\* passed since the last kept frame.
C40_Witness ==
    /\ legacy.kept = "keep"
    /\ legacy.diff = 0
    /\ legacy.frame_counter >= 3
    /\ legacy.last_capture_time >= max_skip_duration

====
